---- MODULE Spec2Model ----
(***************************************************************************)
(* StreamRecorderOptimize: the temporal correlation and merge-decision     *)
(* engine (core/engines, core/processors).                                 *)
(*                                                                         *)
(* Times are whole seconds counted from 00:00:00 of day 0, so a datetime   *)
(* is one integer; "no value" (Python None) is NoTime.                     *)
(***************************************************************************)
EXTENDS Integers, Sequences, FiniteSets, TLC

VARIABLES
    pc,              \* position of the driver: "start" before the call, "done" after it
    folder_list,     \* L3: one (date, title) group, list of FolderInfo sorted by date
    flv_times,       \* L3: path -> FlvFileManager.get_flv_modification_time(path)
    merge_chains,    \* L3: result of TimeBasedMerger.find_merge_chains
    cd_list,         \* L4: one title group, list of FolderInfo sorted by date
    cd_media,        \* L4: path -> media facts of that folder
    merge_interval,  \* L4: CrossDayMerger.merge_interval (configured threshold, seconds)
    cross_day_pairs, \* L4: result of CrossDayMerger.find_cross_day_pairs
    normal_folders,  \* L5: ErrorTimeIndexer.normal_folders, (day, title) -> FolderInfo
    error_folder,    \* L5: one entry of ErrorTimeIndexer.error_folders (date recovered)
    instruction,     \* L5: the merge L5Processor executes for error_folder, or NoInstruction
    tree,            \* the directory tree: session folder name -> directory node
    tree0,           \* history: the tree before any merge
    pre,             \* history: the tree before the last operation
    op,              \* history: the last operation, its arguments and its return value
    removed_log,     \* history: content hash -> number of os.remove calls on such a file
    conflicted,      \* history: some merge met a same-name / different-content file pair
    recording_status, \* the recording-status dict: base name -> [recording, streaming]
    passes,          \* number of completed processor passes / merge operations
    last_instr,      \* number of merge chains the last completed pass derived
    crash,           \* history: the merge a killed pass was interrupted in, or NoCrash
    groups,          \* BaseFolderIndexer.groups: group key -> list of FolderInfo
    skipped_folders, \* BaseFolderIndexer.skipped_folders
    error_folders,   \* ErrorTimeIndexer.error_folders (dates recovered)
    merge_calls,     \* history: the merges a processor asked for, [target, folders, merged]
    cache,           \* FlvFileManager.cache: folder path -> FlvInfo or NoFlvInfo
    answers,         \* history: (path, fact) -> what the first query of the run returned
    stats,           \* processor.stats: the outcomes reported so far, in order
    events,          \* history: the steps of a processor run, in order
    target,          \* the entries of the target directory of a path group
    api_ok           \* whether the recording-status request of this run succeeds

l3vars == <<folder_list, flv_times, merge_chains>>
l4vars == <<cd_list, cd_media, merge_interval, cross_day_pairs>>
l5vars == <<normal_folders, error_folder, instruction>>
fsvars == <<tree, tree0, pre, op, removed_log, conflicted, recording_status>>
runvars == <<passes, last_instr, crash>>
ixvars == <<groups, skipped_folders, error_folders, merge_calls>>
probevars == <<cache, answers>>
procvars == <<stats, events, target, api_ok>>
vars == <<pc, l3vars, l4vars, l5vars, fsvars, runvars, ixvars, probevars, procvars>>

----------------------------------------------------------------------------
(* Bounds of the model *)

MaxLen == 3        \* longest folder group handed to an algorithm
MaxTick == 4       \* number of 30-second grid steps in the sampled times
MaxPairLen == 2    \* longest title group handed to the cross-day algorithm
MaxDay == 2        \* calendar days 0..MaxDay carry normal folders in the recovery index
MaxHash == 2       \* file contents are 1..MaxHash
MaxFolders == 3    \* session folders in the user folder of a processor run
MaxFiles == 3      \* media files in the user folder of a processor run
MaxPasses == 3     \* processor passes over one user folder
MaxOps == 2        \* merge operations applied in sequence to two folders
MaxDepth == 2      \* directory levels below the root of a pruned tree
MaxSessions == 2   \* session folders in the varied user folder of a path group
MaxExtras == 1     \* folders next to the varied user folder in its source
MaxGroup == 4      \* longest folder group of the chain search with several chains
MaxCount == 4      \* largest total of a Statistics object

----------------------------------------------------------------------------
(* datetime arithmetic *)

NoTime == -1

DaySeconds == 86400
HourSeconds == 3600

\* datetime.date()
DateOf(t) == t \div DaySeconds

\* datetime.hour
HourOf(t) == (t % DaySeconds) \div HourSeconds

Abs(x) == IF x < 0 THEN -x ELSE x

\* TimeInterval.calculate_seconds_between
calculate_seconds_between(time1, time2) == Abs(time2 - time1)

is_within_interval_strict(time1, time2, max_interval) ==
    calculate_seconds_between(time1, time2) < max_interval

\* TimeInterval.is_within_interval
is_within_interval(time1, time2, max_interval) ==
    calculate_seconds_between(time1, time2) <= max_interval

----------------------------------------------------------------------------
(* L3: same-day sliding-window merge, TimeBasedMerger *)

\* TimeBasedMerger.__init__ default merge_interval_seconds
MergeIntervalL3 == 60

\* TimeBasedMerger.should_merge
should_merge(time1, time2) == is_within_interval(time1, time2, MergeIntervalL3)

\* The forward scan "for j in range(i + 1, len(folder_list))" of
\* find_merge_chains: returns the grown merge_targets and used_indices.
RECURSIVE ScanForwardNoBreak(_, _, _, _, _)
ScanForwardNoBreak(list, flv_mod_time, j, used, targets) ==
    IF j > Len(list) THEN [targets |-> targets, used |-> used]
    ELSE IF j \in used THEN ScanForwardNoBreak(list, flv_mod_time, j + 1, used, targets)
    ELSE IF should_merge(flv_mod_time, list[j].date)
         THEN ScanForwardNoBreak(list, flv_mod_time, j + 1, used \cup {j},
                                 Append(targets, list[j].path))
         ELSE ScanForwardNoBreak(list, flv_mod_time, j + 1, used, targets)

RECURSIVE ScanForward(_, _, _, _, _)
ScanForward(list, flv_mod_time, j, used, targets) ==
    IF j > Len(list) THEN [targets |-> targets, used |-> used]
    ELSE IF j \in used THEN ScanForward(list, flv_mod_time, j + 1, used, targets)
    ELSE IF should_merge(flv_mod_time, list[j].date)
         THEN ScanForward(list, flv_mod_time, j + 1, used \cup {j},
                          Append(targets, list[j].path))
         ELSE [targets |-> targets, used |-> used]      \* break

\* An anchor loop that gives up at the first anchor without media
RECURSIVE ChainLoopStopWithoutMedia(_, _, _, _, _)
ChainLoopStopWithoutMedia(list, flv, i, used, chains) ==
    IF i > Len(list) THEN chains
    ELSE IF i \in used THEN ChainLoopStopWithoutMedia(list, flv, i + 1, used, chains)
    ELSE LET current_folder == list[i].path
             flv_mod_time == flv[current_folder]
         IN IF flv_mod_time = NoTime
            THEN chains
            ELSE LET r == ScanForward(list, flv_mod_time, i + 1, used \cup {i},
                                      <<current_folder>>)
                 IN ChainLoopStopWithoutMedia(list, flv, i + 1, r.used,
                              IF Len(r.targets) > 1
                              THEN Append(chains, [target |-> current_folder,
                                                   sources |-> Tail(r.targets)])
                              ELSE chains)

\* An anchor loop that does not keep the indices a chain has used
RECURSIVE ChainLoopForgetUsed(_, _, _, _, _)
ChainLoopForgetUsed(list, flv, i, used, chains) ==
    IF i > Len(list) THEN chains
    ELSE LET current_folder == list[i].path
             flv_mod_time == flv[current_folder]
         IN IF flv_mod_time = NoTime
            THEN ChainLoopForgetUsed(list, flv, i + 1, used, chains)
            ELSE LET r == ScanForward(list, flv_mod_time, i + 1, {i}, <<current_folder>>)
                 IN ChainLoopForgetUsed(list, flv, i + 1, used,
                              IF Len(r.targets) > 1
                              THEN Append(chains, [target |-> current_folder,
                                                   sources |-> Tail(r.targets)])
                              ELSE chains)

\* The anchor loop "for i in range(len(folder_list))" of find_merge_chains.
RECURSIVE ChainLoop(_, _, _, _, _)
ChainLoop(list, flv, i, used, chains) ==
    IF i > Len(list) THEN chains
    ELSE IF i \in used THEN ChainLoop(list, flv, i + 1, used, chains)
    ELSE LET current_folder == list[i].path
             flv_mod_time == flv[current_folder]
         IN IF flv_mod_time = NoTime
            THEN ChainLoop(list, flv, i + 1, used, chains)
            ELSE LET r == ScanForward(list, flv_mod_time, i + 1, used \cup {i},
                                      <<current_folder>>)
                 IN ChainLoop(list, flv, i + 1, r.used,
                              IF Len(r.targets) > 1
                              THEN Append(chains, [target |-> current_folder,
                                                   sources |-> Tail(r.targets)])
                              ELSE chains)

\* TimeBasedMerger.find_merge_chains
find_merge_chains(list, flv) == ChainLoop(list, flv, 1, {}, <<>>)

----------------------------------------------------------------------------
(* L4: cross-midnight merge, CrossDayMerger *)

\* CrossDayMerger.__init__ defaults start_hour / end_hour
StartHour == 20
EndHour == 4

\* l4_merge_interval of the configuration, in seconds
MergeIntervalL4 == 60

\* The pre-filter without its test of the calendar days
is_cross_day_candidate_any_day(flv_time, folder_time) ==
    HourOf(flv_time) >= StartHour /\ HourOf(folder_time) <= EndHour

\* CrossDayMerger.is_cross_day_candidate: the pre-filter on the nominal dates
is_cross_day_candidate(flv_time, folder_time) ==
    IF DateOf(folder_time) # DateOf(flv_time) + 1
    THEN FALSE
    ELSE HourOf(flv_time) >= StartHour /\ HourOf(folder_time) <= EndHour

\* float('inf') is the record with inf = TRUE; a finite interval carries its seconds
Infinite == [inf |-> TRUE, seconds |-> 0]
Finite(n) == [inf |-> FALSE, seconds |-> n]

\* "cross_day_interval <= self.merge_interval" on a float that may be inf
IntervalLeq(r, threshold) == ~r.inf /\ r.seconds <= threshold

calculate_cross_day_interval_no_date_check(flv_time, folder_time) ==
    LET midnight == (DateOf(flv_time) + 1) * DaySeconds
    IN Finite((midnight - flv_time) + (folder_time - midnight))

\* TimeInterval.calculate_cross_day_interval
calculate_cross_day_interval(flv_time, folder_time) ==
    IF DateOf(folder_time) # DateOf(flv_time) + 1
    THEN Infinite
    ELSE LET midnight == (DateOf(flv_time) + 1) * DaySeconds
         IN Finite((midnight - flv_time) + (folder_time - midnight))

\* The loop "for i in range(len(folder_list) - 1)" of find_cross_day_pairs.
RECURSIVE PairLoop(_, _, _, _, _)
PairLoop(list, media, threshold, i, pairs) ==
    IF i > Len(list) - 1 THEN pairs
    ELSE LET current_folder == list[i].path
             next_folder == list[i + 1].path
             current_flv_time == media[current_folder].mod
             next_flv_info == media[next_folder].info
             next_flv_creation_time == media[next_folder].ctime
             skip == PairLoop(list, media, threshold, i + 1, pairs)
         IN IF ~is_cross_day_candidate(list[i].date, list[i + 1].date) THEN skip
            ELSE IF current_flv_time = NoTime \/ ~next_flv_info THEN skip
            ELSE IF next_flv_creation_time = NoTime THEN skip
            ELSE IF IntervalLeq(calculate_cross_day_interval(current_flv_time,
                                                             next_flv_creation_time),
                                threshold)
                 THEN PairLoop(list, media, threshold, i + 1,
                               Append(pairs, [target |-> current_folder,
                                              source |-> next_folder]))
                 ELSE skip

\* CrossDayMerger.find_cross_day_pairs
find_cross_day_pairs(list, media, threshold) == PairLoop(list, media, threshold, 1, <<>>)

----------------------------------------------------------------------------
(* L5: corrupted-timestamp recovery, ErrorTimeIndexer / L5Processor *)

\* TimeParser._parse_error_time_format: datetime(1970, 1, 1, 8, 0, 0), far
\* before every real nominal date of the model
ErrorDate == -1000000

NoFolder == [path |-> [date |-> NoTime, title |-> ""], date |-> NoTime, title |-> ""]
NoInstruction == [target |-> NoFolder.path, source |-> NoFolder.path]

\* dict.get on normal_folders
NormalGet(normal, key) == IF key \in DOMAIN normal THEN normal[key] ELSE NoFolder

find_matching_normal_folder_any_hour(normal, error) ==
    LET exact_match == NormalGet(normal, <<DateOf(error.date), error.title>>)
        prev_day_match == NormalGet(normal, <<DateOf(error.date) - 1, error.title>>)
    IN IF exact_match # NoFolder THEN exact_match
       ELSE IF prev_day_match # NoFolder THEN prev_day_match
       ELSE NoFolder

\* ErrorTimeIndexer.find_matching_normal_folder
find_matching_normal_folder(normal, error) ==
    LET key == <<DateOf(error.date), error.title>>
        exact_match == NormalGet(normal, key)
        prev_day == DateOf(error.date) - 1
        prev_day_match == NormalGet(normal, <<prev_day, error.title>>)
    IN IF exact_match # NoFolder THEN exact_match
       ELSE IF prev_day_match # NoFolder
               /\ 0 <= HourOf(error.date) /\ HourOf(error.date) <= 6
            THEN prev_day_match
            ELSE NoFolder

\* ErrorTimeFixer.fix_error_folder hands (error folder, target folder) to
\* MergeOperations.merge_folder_contents(source_folder, target_folder); the
\* loop body of L5Processor._process_user_folder for one error folder.
L5Instruction(normal, error) ==
    LET target_folder_info == find_matching_normal_folder(normal, error)
    IN IF target_folder_info # NoFolder
       THEN [target |-> target_folder_info.path, source |-> error.path]
       ELSE NoInstruction

----------------------------------------------------------------------------
(* The directory tree and the file operations, FileOperations / MergeOperations *)

\* A directory's entries: entry name -> node. A node is a file (content
\* hash, modification time) or a directory (entries).
NoEntries == [n \in {} |-> 0]
FileNode(h, m) == [kind |-> "file", hash |-> h, mtime |-> m, entries |-> NoEntries]
DirNode(e) == [kind |-> "dir", hash |-> 0, mtime |-> 0, entries |-> e]

Put(f, k, v) == [x \in DOMAIN f \cup {k} |-> IF x = k THEN v ELSE f[x]]
Drop(f, k) == [x \in DOMAIN f \ {k} |-> f[x]]

\* os.listdir: the entry names, in an order the file system chooses
ListDir(P, d) == IF d \in DOMAIN P THEN DOMAIN P[d].entries ELSE {}
Perms(S) == {q \in [1..Cardinality(S) -> S] : \A i, j \in 1..Cardinality(S) : q[i] = q[j] => i = j}

\* os.path.exists(folder/item)
ItemExists(P, d, item) == d \in DOMAIN P /\ item \in DOMAIN P[d].entries
\* os.path.isfile(folder/item)
ItemIsFile(P, d, item) == ItemExists(P, d, item) /\ P[d].entries[item].kind = "file"

\* os.remove / os.rmdir of folder/item
RemoveItem(P, d, item) == [P EXCEPT ![d].entries = Drop(@, item)]
\* os.rename(source/item, target/item), the target name being free
RenameItem(P, s, t, item) ==
    [P EXCEPT ![t].entries = Put(@, item, P[s].entries[item]),
              ![s].entries = Drop(@, item)]
\* an existing target entry is replaced
ReplaceItem(P, s, t, item) ==
    [P EXCEPT ![t].entries = Put(Drop(@, item), item, P[s].entries[item]),
              ![s].entries = Drop(@, item)]

\* recording_status = None: no name is looked up
NoStatus == [n \in {} |-> [recording |-> FALSE, streaming |-> FALSE]]

\* folder_status and (folder_status["recording"] or folder_status["streaming"])
IsActive(status, name) ==
    name \in DOMAIN status /\ (status[name].recording \/ status[name].streaming)

\* the walk without the recording-status test
RECURSIVE PruneDirIgnoreStatus(_, _, _)
PruneDirIgnoreStatus(name, node, status) ==
    LET kids == node.entries
        kept == {k \in DOMAIN kids :
                    kids[k].kind = "file" \/ ~PruneDirIgnoreStatus(k, kids[k], status).gone}
        pruned == [k \in kept |-> IF kids[k].kind = "file" THEN kids[k]
                                  ELSE PruneDirIgnoreStatus(k, kids[k], status).node]
    IN IF kept = {}
       THEN [gone |-> TRUE, node |-> DirNode(NoEntries)]
       ELSE [gone |-> FALSE, node |-> DirNode(pruned)]

\* the test of the directory itself without the walk below it
PruneDirNoDescent(name, node, status) ==
    IF DOMAIN node.entries = {} /\ ~IsActive(status, name)
    THEN [gone |-> TRUE, node |-> DirNode(NoEntries)]
    ELSE [gone |-> FALSE, node |-> node]

\* FileOperations.cleanup_empty_folders_recursive on one directory node:
\* post-order; gone = the directory itself was removed.
RECURSIVE PruneDir(_, _, _)
PruneDir(name, node, status) ==
    LET kids == node.entries
        kept == {k \in DOMAIN kids :
                    kids[k].kind = "file" \/ ~PruneDir(k, kids[k], status).gone}
        pruned == [k \in kept |-> IF kids[k].kind = "file" THEN kids[k]
                                  ELSE PruneDir(k, kids[k], status).node]
    IN IF kept = {} /\ ~IsActive(status, name)
       THEN [gone |-> TRUE, node |-> DirNode(NoEntries)]
       ELSE [gone |-> FALSE, node |-> DirNode(pruned)]

\* FileOperations.cleanup_empty_folders_recursive(directory)
cleanup_empty_folders_recursive(P, d, status) ==
    IF d \notin DOMAIN P \/ P[d].kind # "dir" THEN P
    ELSE LET r == PruneDir(d, P[d], status)
         IN IF r.gone THEN Drop(P, d) ELSE [P EXCEPT ![d] = r.node]

\* move.delete_empty_folders on one directory node (the older module's walk)
RECURSIVE DeleteDir(_, _, _)
DeleteDir(name, node, status) ==
    LET kids == node.entries
        kept == {k \in DOMAIN kids :
                    kids[k].kind = "file" \/ ~DeleteDir(k, kids[k], status).gone}
        pruned == [k \in kept |-> IF kids[k].kind = "file" THEN kids[k]
                                  ELSE DeleteDir(k, kids[k], status).node]
    IN IF kept = {} /\ ~IsActive(status, name)
       THEN [gone |-> TRUE, node |-> DirNode(NoEntries)]
       ELSE [gone |-> FALSE, node |-> DirNode(pruned)]

\* move.delete_empty_folders(directory, recording_status)
delete_empty_folders(P, d, status) ==
    IF d \notin DOMAIN P \/ P[d].kind # "dir" THEN P
    ELSE LET r == DeleteDir(d, P[d], status)
         IN IF r.gone THEN Drop(P, d) ELSE [P EXCEPT ![d] = r.node]

\* The loop of move_files_between_folders. When target/item exists the code
\* builds a new name it never uses and calls shutil.move(source_path,
\* target_folder), which raises "Destination path already exists": the
\* except clause returns False and the items moved so far stay moved.
RECURSIVE MoveLoopOverwrite(_, _, _, _, _)
MoveLoopOverwrite(P, s, t, order, i) ==
    IF i > Len(order) THEN [tree |-> P, ok |-> TRUE]
    ELSE IF ItemExists(P, t, order[i])
         THEN MoveLoopOverwrite(ReplaceItem(P, s, t, order[i]), s, t, order, i + 1)
         ELSE MoveLoopOverwrite(RenameItem(P, s, t, order[i]), s, t, order, i + 1)

RECURSIVE MoveLoop(_, _, _, _, _)
MoveLoop(P, s, t, order, i) ==
    IF i > Len(order) THEN [tree |-> P, ok |-> TRUE]
    ELSE IF ItemExists(P, t, order[i])
         THEN [tree |-> P, ok |-> FALSE]
         ELSE MoveLoop(RenameItem(P, s, t, order[i]), s, t, order, i + 1)

\* FileOperations.move_files_between_folders
move_files_between_folders(P, s, t, order) ==
    IF s \notin DOMAIN P THEN [tree |-> P, ok |-> FALSE]
    ELSE IF t \notin DOMAIN P THEN [tree |-> P, ok |-> FALSE]
    ELSE MoveLoop(P, s, t, order, 1)

\* FileOperations.remove_empty_folder
remove_empty_folder(P, d) ==
    IF d \in DOMAIN P /\ DOMAIN P[d].entries = {}
    THEN [tree |-> Drop(P, d), ok |-> TRUE]
    ELSE [tree |-> P, ok |-> FALSE]

\* A merge that reports success whatever the move and the removal did
merge_folder_contents_always_true(P, s, t, order) ==
    LET m == move_files_between_folders(P, s, t, order)
    IN [tree |-> remove_empty_folder(m.tree, s).tree, ok |-> TRUE]

\* MergeOperations.merge_folder_contents
merge_folder_contents(P, s, t, order) ==
    LET m == move_files_between_folders(P, s, t, order)
    IN IF m.ok THEN remove_empty_folder(m.tree, s)
       ELSE [tree |-> m.tree, ok |-> FALSE]

\* MergeOperations.merge_folder_list_to_target; orders[f] is the os.listdir
\* order of folder f.
RECURSIVE MergeListLoop(_, _, _, _, _, _)
MergeListLoop(P, folders, t, orders, i, merge_count) ==
    IF i > Len(folders) THEN [tree |-> P, count |-> merge_count]
    ELSE IF folders[i] # t
         THEN LET r == merge_folder_contents(P, folders[i], t, orders[folders[i]])
              IN MergeListLoop(r.tree, folders, t, orders, i + 1,
                               IF r.ok THEN merge_count + 1 ELSE merge_count)
         ELSE MergeListLoop(P, folders, t, orders, i + 1, merge_count)

merge_folder_list_to_target(P, folders, t, orders) ==
    MergeListLoop(P, folders, t, orders, 1, 0)

\* FileOperations.cleanup_empty_folders: the empty immediate sub-folders go
cleanup_empty_folders(P) ==
    [d \in {x \in DOMAIN P : P[x].kind # "dir" \/ DOMAIN P[x].entries # {}} |-> P[d]]

\* FileOperations.calculate_md5: the digest of the content, "" (here 0) when
\* the file cannot be read. Distinct contents have distinct digests.
Md5Failed == 0
calculate_md5(P, d, item, unreadable) ==
    IF <<d, item>> \in unreadable THEN Md5Failed ELSE P[d].entries[item].hash

\* The loop of _merge_folder_contents_with_md5 and the clean-up after it.
\* removed = the items os.remove was called on.
RECURSIVE Md5LoopOverwrite(_, _, _, _, _, _, _, _)
Md5LoopOverwrite(P, s, t, order, i, unreadable, status, removed) ==
    IF i > Len(order)
    THEN [tree |-> cleanup_empty_folders_recursive(P, s, status), ok |-> TRUE,
          removed |-> removed]
    ELSE LET item == order[i]
         IN IF ItemExists(P, t, item)
            THEN IF ItemIsFile(P, s, item) /\ ItemIsFile(P, t, item)
                 THEN Md5LoopOverwrite(ReplaceItem(P, s, t, item),
                              s, t, order, i + 1, unreadable, status, removed)
                 ELSE Md5LoopOverwrite(P, s, t, order, i + 1, unreadable, status, removed)
            ELSE IF ~ItemExists(P, s, item)
                 THEN [tree |-> P, ok |-> FALSE, removed |-> removed]
                 ELSE Md5LoopOverwrite(RenameItem(P, s, t, item), s, t, order, i + 1,
                              unreadable, status, removed)

RECURSIVE Md5Loop(_, _, _, _, _, _, _, _)
Md5Loop(P, s, t, order, i, unreadable, status, removed) ==
    IF i > Len(order)
    THEN [tree |-> cleanup_empty_folders_recursive(P, s, status), ok |-> TRUE,
          removed |-> removed]
    ELSE LET item == order[i]
         IN IF ItemExists(P, t, item)
            THEN IF ItemIsFile(P, s, item) /\ ItemIsFile(P, t, item)
                    /\ calculate_md5(P, s, item, unreadable)
                           = calculate_md5(P, t, item, unreadable)
                 THEN \* os.remove(source_item_path), then clean-up of its directory
                      Md5Loop(cleanup_empty_folders_recursive(RemoveItem(P, s, item), s, status),
                              s, t, order, i + 1, unreadable, status, removed \cup {item})
                 ELSE Md5Loop(P, s, t, order, i + 1, unreadable, status, removed)
            ELSE IF ~ItemExists(P, s, item)
                 THEN \* the clean-up already removed it: shutil.move raises
                      [tree |-> P, ok |-> FALSE, removed |-> removed]
                 ELSE Md5Loop(RenameItem(P, s, t, item), s, t, order, i + 1,
                              unreadable, status, removed)

\* FileOperations._merge_folder_contents_with_md5
merge_folder_contents_with_md5(P, s, t, order, unreadable, status) ==
    Md5Loop(P, s, t, order, 1, unreadable, status, {})

\* FileOperations.move_folder_advanced (enable_move = True)
move_folder_advanced(P, s, t, order, unreadable, status) ==
    IF s \notin DOMAIN P THEN [tree |-> P, ok |-> FALSE, removed |-> {}]
    ELSE IF t \notin DOMAIN P
         THEN [tree |-> Put(Drop(P, s), t, P[s]), ok |-> TRUE, removed |-> {}]
         ELSE merge_folder_contents_with_md5(P, s, t, order, unreadable, status)

----------------------------------------------------------------------------
(* The L3 processor on a user folder *)

\* A session folder's name is held parsed: TimeParser.parse_folder_name reads
\* "YYYYMMDD-HHMMSS_title" as (date, title), one to one on such names.
FolderName(d, ti) == [date |-> d, title |-> ti]

\* glob "*.flv"
IsFlvName(n) ==
    n \in {"a.flv", "b.flv", "c.flv", "x.flv", "20250521-100200_A.flv",
           "20250522-003000_A.flv", "20251399-100200_A.flv"}

\* flv_files = glob.glob(os.path.join(folder_path, "*.flv"))
flv_files(P, d) == {n \in DOMAIN P[d].entries : IsFlvName(n)}

RECURSIVE MaxOf(_)
MaxOf(S) ==
    LET x == CHOOSE y \in S : TRUE
    IN IF S = {x} THEN x
       ELSE LET m == MaxOf(S \ {x}) IN IF x > m THEN x ELSE m

\* FlvFileManager.get_flv_modification_time: read from the disk at each call
get_flv_modification_time(P, d) ==
    IF d \notin DOMAIN P THEN NoTime
    ELSE IF flv_files(P, d) = {} THEN NoTime
    ELSE MaxOf({P[d].entries[n].mtime : n \in flv_files(P, d)})

\* TimeBasedIndexer.get_grouping_key
get_grouping_key(f) == <<DateOf(f.date), f.title>>

\* BaseFolderIndexer.scan_and_index: one group, sorted by nominal date. The
\* folders of a group differ in name and share the title, so in date.
scan_and_index(P, key) ==
    LET members == {f \in DOMAIN P : get_grouping_key(f) = key}
        sorted == CHOOSE q \in Perms(members) :
                      \A i, j \in 1..Len(q) : i < j => q[i].date <= q[j].date
    IN [i \in 1..Len(sorted) |-> [path |-> sorted[i], date |-> sorted[i].date]]

\* BaseFolderIndexer.get_mergeable_groups (min_size = 2); the groups are
\* disjoint and a merge stays inside its group, so the dict order of the
\* groups does not show in the result: one order is taken.
RECURSIVE SetToSeq(_)
SetToSeq(S) ==
    IF S = {} THEN <<>>
    ELSE LET x == CHOOSE y \in S : TRUE IN <<x>> \o SetToSeq(S \ {x})

get_mergeable_groups(P) ==
    SetToSeq({key \in {get_grouping_key(f) : f \in DOMAIN P} :
                 Len(scan_and_index(P, key)) >= 2})

FlvTimes(P) == [f \in DOMAIN P |-> get_flv_modification_time(P, f)]

\* TimeBasedMerger.execute_merges
RECURSIVE ExecLoop(_, _, _, _, _)
ExecLoop(P, chains, orders, i, total_merged) ==
    IF i > Len(chains) THEN [tree |-> P, count |-> total_merged]
    ELSE LET r == merge_folder_list_to_target(P, chains[i].sources, chains[i].target, orders)
         IN ExecLoop(r.tree, chains, orders, i + 1, total_merged + r.count)

execute_merges(P, chains, orders) == ExecLoop(P, chains, orders, 1, 0)

\* "for key, folder_list in mergeable_groups" of L3Processor._process_user_folder:
\* the groups are those of the scan at the start of the pass (P0), the media
\* times are read when the group is reached (P).
RECURSIVE GroupLoop(_, _, _, _, _, _, _)
GroupLoop(P0, P, keys, orders, i, total_merged, derived) ==
    IF i > Len(keys) THEN [tree |-> P, merged |-> total_merged, chains |-> derived]
    ELSE LET chains == find_merge_chains(scan_and_index(P0, keys[i]), FlvTimes(P))
             r == execute_merges(P, chains, orders)
         IN GroupLoop(P0, r.tree, keys, orders, i + 1, total_merged + r.count,
                      derived + Len(chains))

\* L3Processor._process_user_folder: one scan, one derivation per group, the
\* merges, the clean-up. Without a mergeable group it returns before the clean-up.
process_user_folder(P, orders) ==
    LET keys == get_mergeable_groups(P)
    IN IF keys = <<>> THEN [tree |-> P, merged |-> 0, chains |-> 0]
       ELSE LET r == GroupLoop(P, P, keys, orders, 1, 0, 0)
            IN [tree |-> cleanup_empty_folders(r.tree), merged |-> r.merged,
                chains |-> r.chains]

\* The merges a pass over P executes, in order: <<source, target>>.
RECURSIVE FlatChains(_, _)
FlatChains(chains, i) ==
    IF i > Len(chains) THEN <<>>
    ELSE [k \in 1..Len(chains[i].sources) |->
             [source |-> chains[i].sources[k], target |-> chains[i].target]]
         \o FlatChains(chains, i + 1)

RECURSIVE FlatGroups(_, _, _)
FlatGroups(P, keys, i) ==
    IF i > Len(keys) THEN <<>>
    ELSE FlatChains(find_merge_chains(scan_and_index(P, keys[i]), FlvTimes(P)), 1)
         \o FlatGroups(P, keys, i + 1)

derived_merges(P) == FlatGroups(P, get_mergeable_groups(P), 1)

\* The first n merges of a pass, executed in full
RECURSIVE ExecPrefix(_, _, _, _, _)
ExecPrefix(P, merges, orders, i, n) ==
    IF i > n THEN P
    ELSE ExecPrefix(merge_folder_contents(P, merges[i].source, merges[i].target,
                                          orders[merges[i].source]).tree,
                    merges, orders, i + 1, n)

\* The first k renames of move_files_between_folders, none of them refused
RECURSIVE MovePrefix(_, _, _, _, _, _)
MovePrefix(P, s, t, order, i, k) ==
    IF i > k THEN P
    ELSE MovePrefix(RenameItem(P, s, t, order[i]), s, t, order, i + 1, k)

----------------------------------------------------------------------------
(* TimeParser: directory names and their parsing *)

\* A directory name is held by its parts, "<stamp>_<title>[<tag>]<tail>":
\* stamp is the time "<8 digits>-<6 digits>" reads as, BadStamp when the
\* digits are no date (strptime raises ValueError), NoStamp when the name
\* does not start with such digits and "_"; tag is the text after the
\* opening bracket and "blrec-" ("" when the name has no such bracket);
\* tail is what follows the closing bracket.
BadStamp == -2
NoStamp == -3
DirName(stamp, title, tag, tail) ==
    [stamp |-> stamp, title |-> title, tag |-> tag, tail |-> tail]

\* FolderInfo (path = folder_path/name, one folder_path per scan); NoInfo is None
FolderInfo(n, d, ti, su) == [name |-> n, path |-> n, date |-> d, title |-> ti, suffix |-> su]
NoInfo == FolderInfo(DirName(NoStamp, "", "", ""), NoTime, "", "")

\* "(.+)" after the stamp finds at least one character
HasRest(n) == n.title # "" \/ n.tag # "" \/ n.tail # ""

\* TimeParser.is_blrec_format: the opening bracket and "blrec-" occur in the name
is_blrec_format(n) == n.tag # ""
\* TimeParser.is_standard_format: re.match(FOLDER_PATTERN)
is_standard_format(n) == n.stamp # NoStamp /\ HasRest(n)
\* TimeParser.is_error_time_format: startswith("19700101-080000_")
is_error_time_format(n) == n.stamp = ErrorDate

\* TimeParser._parse_blrec_format: re.match(BLREC_PATTERN), then strptime
parse_blrec_format(n) ==
    IF n.stamp # NoStamp /\ n.title # "" /\ n.tag \in {"blrec-flv", "blrec-hls"}
    THEN IF n.stamp # BadStamp
         THEN FolderInfo(n, n.stamp, n.title, n.tag)
         ELSE NoInfo
    ELSE NoInfo

\* TimeParser._parse_standard_format: the title is all that follows the stamp
\* (names without a bracket have an empty tail)
parse_standard_format(n) ==
    IF n.stamp # NoStamp /\ HasRest(n)
    THEN IF n.stamp # BadStamp
         THEN FolderInfo(n, n.stamp, n.title, "")
         ELSE NoInfo
    ELSE NoInfo

\* TimeParser._parse_error_time_format
parse_error_time_format(n) ==
    IF n.stamp = ErrorDate /\ HasRest(n)
    THEN FolderInfo(n, ErrorDate, n.title, "")
    ELSE NoInfo

\* A parser that makes a record of every name
parse_folder_name_lenient(n) ==
    FolderInfo(n, IF n.stamp \in {BadStamp, NoStamp} THEN 0 ELSE n.stamp, n.title,
               IF n.tag \in {"blrec-flv", "blrec-hls"} THEN n.tag ELSE "")

\* TimeParser.parse_folder_name
parse_folder_name(n) ==
    IF is_blrec_format(n) THEN parse_blrec_format(n)
    ELSE IF is_standard_format(n) THEN parse_standard_format(n)
    ELSE IF is_error_time_format(n) THEN parse_error_time_format(n)
    ELSE NoInfo

----------------------------------------------------------------------------
(* The folder indexers, BaseFolderIndexer and its subclasses *)

\* BaseFolderIndexer._iterate_folders: the immediate entries of the scanned
\* folder in the os.listdir order `listing`, directories only, parsed
RECURSIVE iterate_folders(_, _, _)
iterate_folders(P, listing, i) ==
    IF i > Len(listing) THEN <<>>
    ELSE LET folder_info == parse_folder_name(listing[i])
         IN (IF P[listing[i]].kind # "dir" THEN <<>>
             ELSE IF folder_info # NoInfo THEN <<folder_info>>
             ELSE <<>>)
            \o iterate_folders(P, listing, i + 1)

\* A group key holds the parts an indexer uses; the others are AnyDay / "".
\* NoKey is the None of BlrecIndexer.get_grouping_key.
AnyDay == -1
GroupKey(day, title, suffix) == [day |-> day, title |-> title, suffix |-> suffix]
NoKey == GroupKey(AnyDay, "", "None")

\* Every indexer grouping by title alone
title_only_grouping_key(indexer, folder_info) == GroupKey(AnyDay, folder_info.title, "")

\* TimeBasedIndexer / TitleBasedIndexer / BlrecIndexer .get_grouping_key
indexer_get_grouping_key(indexer, folder_info) ==
    CASE indexer = "TimeBasedIndexer" ->
             GroupKey(DateOf(folder_info.date), folder_info.title, "")
      [] indexer = "TitleBasedIndexer" ->
             GroupKey(AnyDay, folder_info.title, "")
      [] indexer = "BlrecIndexer" ->
             IF folder_info.suffix # ""
             THEN GroupKey(DateOf(folder_info.date), folder_info.title, folder_info.suffix)
             ELSE NoKey

NoGroups == [k \in {} |-> <<>>]

\* "for folder_info in self._iterate_folders(folder_path)" of scan_and_index
RECURSIVE ScanLoop(_, _, _, _, _)
ScanLoop(indexer, infos, i, grouped, skipped) ==
    IF i > Len(infos) THEN [groups |-> grouped, skipped |-> skipped]
    ELSE LET group_key == indexer_get_grouping_key(indexer, infos[i])
         IN IF group_key # NoKey
            THEN ScanLoop(indexer, infos, i + 1,
                          Put(grouped, group_key,
                              (IF group_key \in DOMAIN grouped THEN grouped[group_key]
                               ELSE <<>>) \o <<infos[i]>>),
                          skipped)
            ELSE ScanLoop(indexer, infos, i + 1, grouped, Append(skipped, infos[i]))

\* A group left as it was appended, in listing order
UnsortedGroups(list) == list

\* list.sort(key=lambda x: x.date): stable, equal dates keep their order
RECURSIVE SortByDate(_)
SortByDate(list) ==
    IF Len(list) <= 1 THEN list
    ELSE LET x == list[Len(list)]
             head == SortByDate(SubSeq(list, 1, Len(list) - 1))
             j == Cardinality({i \in 1..Len(head) : head[i].date <= x.date})
         IN SubSeq(head, 1, j) \o <<x>> \o SubSeq(head, j + 1, Len(head))

\* BaseFolderIndexer.scan_and_index
BaseFolderIndexer_scan_and_index(indexer, P, listing) ==
    LET r == ScanLoop(indexer, iterate_folders(P, listing, 1), 1, NoGroups, <<>>)
    IN [groups |-> [k \in DOMAIN r.groups |-> SortByDate(r.groups[k])],
        skipped |-> r.skipped]

\* The keys of self.groups in dict (insertion) order
RECURSIVE KeyOrder(_, _, _, _)
KeyOrder(indexer, infos, i, seen) ==
    IF i > Len(infos) THEN <<>>
    ELSE LET k == indexer_get_grouping_key(indexer, infos[i])
         IN IF k = NoKey \/ k \in seen THEN KeyOrder(indexer, infos, i + 1, seen)
            ELSE <<k>> \o KeyOrder(indexer, infos, i + 1, seen \cup {k})

\* BaseFolderIndexer.get_mergeable_groups (min_size = 2), in dict order
indexer_get_mergeable_groups(indexer, P, listing, grouped) ==
    SelectSeq(KeyOrder(indexer, iterate_folders(P, listing, 1), 1, {}),
              LAMBDA k : Len(grouped[k]) >= 2)

----------------------------------------------------------------------------
(* L2: suffix consolidation, BLREC *)

\* [info.path for info in folder_list[1:] if os.path.exists(info.path)];
\* members is the folder_list of the group
FoldersToMerge(P, members) ==
    LET rest == SubSeq(members, 2, Len(members))
        kept == SelectSeq(rest, LAMBDA info : info.path \in DOMAIN P)
    IN [i \in 1..Len(kept) |-> kept[i].path]

\* BLREC._merge_folder_group over the mergeable groups, in order
RECURSIVE BlrecGroupLoop(_, _, _, _, _, _)
BlrecGroupLoop(P, grouped, keys, orders, i, calls) ==
    IF i > Len(keys) THEN [tree |-> P, calls |-> calls]
    ELSE LET members == grouped[keys[i]]
             merge_to_folder == members[1].path
             folders_to_merge == FoldersToMerge(P, members)
             r == merge_folder_list_to_target(P, folders_to_merge, merge_to_folder, orders)
         IN IF folders_to_merge # <<>>
            THEN BlrecGroupLoop(
                     r.tree, grouped, keys, orders, i + 1,
                     Append(calls, [target |-> merge_to_folder,
                                    folders |-> folders_to_merge,
                                    merged |-> r.count]))
            ELSE BlrecGroupLoop(P, grouped, keys, orders, i + 1, calls)

\* BLREC.merge_folders
BLREC_merge_folders(P, listing, orders) ==
    LET folder_groups == BaseFolderIndexer_scan_and_index("BlrecIndexer", P, listing).groups
        mergeable_groups ==
            indexer_get_mergeable_groups("BlrecIndexer", P, listing, folder_groups)
        r == BlrecGroupLoop(P, folder_groups, mergeable_groups, orders, 1, <<>>)
    IN [tree |-> r.tree, calls |-> r.calls, groups |-> folder_groups]

----------------------------------------------------------------------------
(* FlvFileManager *)

\* FlvInfo of the latest media file; NoFlvInfo is None
FlvInfo(n, m) == [filename |-> n, modification_time |-> m]
NoFlvInfo == FlvInfo("", NoTime)
NoCache == [d \in {} |-> NoFlvInfo]

\* TimeParser.parse_flv_filename: re.search(FLV_PATTERN), then strptime. The
\* file names of the model and the time their token reads as.
parse_flv_filename(flv_name) ==
    CASE flv_name = "20250521-100200_A.flv" -> 36120
      [] flv_name = "20250522-003000_A.flv" -> 88200
      [] flv_name = "20251399-100200_A.flv" -> NoTime
      [] OTHER -> NoTime

\* The info of any media file of the folder, latest or not
extract_flv_info_any_file(P, d) ==
    IF d \notin DOMAIN P \/ P[d].kind # "dir" THEN {NoFlvInfo}
    ELSE IF flv_files(P, d) = {} THEN {NoFlvInfo}
    ELSE {FlvInfo(n, P[d].entries[n].mtime) : n \in flv_files(P, d)}

\* FlvFileManager._extract_flv_info: the files sorted by modification time,
\* latest first; among files of equal time the glob order decides (any of them)
extract_flv_info(P, d) ==
    IF d \notin DOMAIN P \/ P[d].kind # "dir" THEN {NoFlvInfo}
    ELSE IF flv_files(P, d) = {} THEN {NoFlvInfo}
    ELSE {FlvInfo(n, P[d].entries[n].mtime) :
             n \in {x \in flv_files(P, d) :
                       P[d].entries[x].mtime = get_flv_modification_time(P, d)}}

\* FlvFileManager.get_flv_info: [info, cache]; a cached path is not read again
get_flv_info(c, P, d) ==
    IF d \in DOMAIN c THEN {[info |-> c[d], cache |-> c]}
    ELSE {[info |-> flv_info, cache |-> Put(c, d, flv_info)] :
             flv_info \in extract_flv_info(P, d)}

\* FlvFileManager.extract_flv_date_from_filename: [date, cache]
extract_flv_date_from_filename(c, P, d) ==
    {[date |-> IF r.info = NoFlvInfo THEN NoTime ELSE parse_flv_filename(r.info.filename),
      cache |-> r.cache] : r \in get_flv_info(c, P, d)}

\* FlvFileManager.has_flv_file
has_flv_file(c, P, d) ==
    {[has |-> r.info # NoFlvInfo, cache |-> r.cache] : r \in get_flv_info(c, P, d)}

\* FlvFileManager.get_first_flv_creation_time: read from the disk at each
\* call; the files carry their os.path.getctime as ctime
get_first_flv_creation_time(P, d) ==
    IF d \notin DOMAIN P THEN NoTime
    ELSE IF flv_files(P, d) = {} THEN NoTime
    ELSE -MaxOf({-P[d].entries[n].ctime : n \in flv_files(P, d)})

----------------------------------------------------------------------------
(* L5 on a user folder: ErrorTimeIndexer.scan_and_index, L5Processor *)

\* The loop of ErrorTimeIndexer.scan_and_index: the outcomes
\* [errors, normal, cache], one for each way the cache can be filled
RECURSIVE ErrorScanLoop(_, _, _, _, _, _)
ErrorScanLoop(P, infos, i, c, errors, normal) ==
    IF i > Len(infos) THEN {[errors |-> errors, normal |-> normal, cache |-> c]}
    ELSE LET folder_info == infos[i]
         IN IF is_error_time_format(folder_info.name)
            THEN UNION {
                   ErrorScanLoop(P, infos, i + 1, r.cache,
                                 IF r.date # NoTime
                                 THEN Append(errors, [path |-> folder_info.path,
                                                      date |-> r.date,
                                                      title |-> folder_info.title])
                                 ELSE errors,
                                 normal) :
                   r \in extract_flv_date_from_filename(c, P, folder_info.path)}
            ELSE ErrorScanLoop(P, infos, i + 1, c, errors,
                               Put(normal,
                                   <<DateOf(folder_info.date), folder_info.title>>,
                                   [path |-> folder_info.path, date |-> folder_info.date,
                                    title |-> folder_info.title]))

NoNormal == [k \in {} |-> NoFolder]

\* ErrorTimeIndexer.scan_and_index
ErrorTimeIndexer_scan_and_index(c, P, listing) ==
    ErrorScanLoop(P, iterate_folders(P, listing, 1), 1, c, <<>>, NoNormal)

\* ErrorTimeFixer.fix_error_folder
fix_error_folder(P, error_folder_path, target_folder_path, order) ==
    IF error_folder_path \notin DOMAIN P \/ target_folder_path \notin DOMAIN P
    THEN [tree |-> P, ok |-> FALSE]
    ELSE merge_folder_contents(P, error_folder_path, target_folder_path, order)

\* "for error_folder_info in error_folders" of L5Processor._process_user_folder
RECURSIVE FixLoop(_, _, _, _, _, _)
FixLoop(P, errors, normal, orders, i, calls) ==
    IF i > Len(errors) THEN [tree |-> P, calls |-> calls]
    ELSE LET target_folder_info == find_matching_normal_folder(normal, errors[i])
             r == fix_error_folder(P, errors[i].path, target_folder_info.path,
                                   orders[errors[i].path])
         IN IF target_folder_info # NoFolder
            THEN FixLoop(r.tree, errors, normal, orders, i + 1,
                         Append(calls, [target |-> target_folder_info.path,
                                        folders |-> <<errors[i].path>>,
                                        merged |-> IF r.ok THEN 1 ELSE 0]))
            ELSE FixLoop(P, errors, normal, orders, i + 1, calls)

\* L5Processor._process_user_folder after the scan: without an error folder
\* it returns at once, else the fixes and the clean-up of empty folders
L5_process_user_folder(P, scan, orders) ==
    IF scan.errors = <<>> THEN [tree |-> P, calls |-> <<>>]
    ELSE LET r == FixLoop(P, scan.errors, scan.normal, orders, 1, <<>>)
         IN [tree |-> cleanup_empty_folders(r.tree), calls |-> r.calls]

----------------------------------------------------------------------------
(* Statistics and the processors on a user folder *)

\* One reported outcome: add_success / add_success_with_name ("success",
\* with the counts the name carries), add_failed, add_skipped
Outcome(kind, name, reason, merged, removed) ==
    [kind |-> kind, name |-> name, reason |-> reason, merged |-> merged,
     removed |-> removed]

\* Statistics.add_skipped(name, reason)
add_skipped(name, reason) == Outcome("skipped", name, reason, 0, 0)
\* Statistics.add_failed(name, reason)
add_failed(name, reason) == Outcome("failed", name, reason, 0, 0)
\* Statistics.add_success_with_name("<name> (merged, cleaned)")
add_success_with_name(name, merged, removed) == Outcome("success", name, "", merged, removed)
\* Statistics.add_success()
add_success == Outcome("success", DirName(NoStamp, "", "", ""), "", 0, 0)

\* A step of a processor on a directory; instr holds what a derivation found
Step(step, dir, instr) == [step |-> step, dir |-> dir, instr |-> instr]

\* A merge instruction: (target, [sources])
Instruction(t, sources) == [target |-> t, sources |-> sources]

\* empty_count of FileOperations.cleanup_empty_folders
empty_folders_removed(P) == Cardinality(DOMAIN P \ DOMAIN cleanup_empty_folders(P))

\* The closing lines of _process_user_folder of L3, L4 and L5: the outcome
\* after the merges and the clean-up
UserOutcome(name, total_merged, removed, no_need) ==
    IF total_merged > 0 \/ removed > 0
    THEN add_success_with_name(name, total_merged, removed)
    ELSE add_skipped(name, no_need)

\* "for key, folder_list in mergeable_groups" of L3Processor._process_user_folder
RECURSIVE L3GroupLoop(_, _, _, _, _, _, _, _)
L3GroupLoop(name, P, grouped, keys, orders, i, total_merged, steps) ==
    IF i > Len(keys) THEN [tree |-> P, merged |-> total_merged, events |-> steps]
    ELSE LET merge_chains_i == find_merge_chains(grouped[keys[i]], FlvTimes(P))
             derived == Append(steps, Step("derive", name, merge_chains_i))
         IN IF merge_chains_i # <<>>
            THEN LET r == execute_merges(P, merge_chains_i, orders)
                 IN L3GroupLoop(name, r.tree, grouped, keys, orders, i + 1,
                                total_merged + r.count,
                                Append(derived, Step("execute", name, merge_chains_i)))
            ELSE L3GroupLoop(name, P, grouped, keys, orders, i + 1, total_merged, derived)

\* L3Processor._process_user_folder on the entries P of the user folder
\* `name`: [tree, outcome, events]
L3Processor_process_user_folder(name, P, listing, orders) ==
    LET folder_groups == BaseFolderIndexer_scan_and_index("TimeBasedIndexer", P, listing).groups
        mergeable_groups ==
            indexer_get_mergeable_groups("TimeBasedIndexer", P, listing, folder_groups)
        scanned == <<Step("scan", name, <<>>)>>
    IN IF mergeable_groups = <<>>
       THEN [tree |-> P, outcome |-> add_skipped(name, "no mergeable folders"),
             events |-> Append(scanned, Step("report", name, <<>>))]
       ELSE LET r == L3GroupLoop(name, P, folder_groups, mergeable_groups, orders, 1, 0,
                                 scanned)
                removed == empty_folders_removed(r.tree)
            IN [tree |-> cleanup_empty_folders(r.tree),
                outcome |-> UserOutcome(name, r.merged, removed, "no merge needed"),
                events |-> r.events \o <<Step("prune", name, <<>>),
                                         Step("report", name, <<>>)>>]

\* The media facts find_cross_day_pairs asks the FlvFileManager for
MediaOf(P) ==
    [f \in DOMAIN P |-> [mod |-> get_flv_modification_time(P, f),
                         info |-> flv_files(P, f) # {},
                         ctime |-> get_first_flv_creation_time(P, f)]]

\* CrossDayMerger.execute_cross_day_merges
RECURSIVE execute_cross_day_merges(_, _, _, _, _)
execute_cross_day_merges(P, pairs, orders, i, total_merged) ==
    IF i > Len(pairs) THEN [tree |-> P, count |-> total_merged]
    ELSE LET source_folder == pairs[i].source
             target_folder == pairs[i].target
         IN IF source_folder \in DOMAIN P /\ target_folder \in DOMAIN P
            THEN LET r == merge_folder_contents(P, source_folder, target_folder,
                                                orders[source_folder])
                 IN execute_cross_day_merges(r.tree, pairs, orders, i + 1,
                                             IF r.ok THEN total_merged + 1
                                             ELSE total_merged)
            ELSE execute_cross_day_merges(P, pairs, orders, i + 1, total_merged)

\* the pairs of find_cross_day_pairs as instructions
RECURSIVE PairInstructions(_)
PairInstructions(pairs) ==
    IF pairs = <<>> THEN <<>>
    ELSE <<Instruction(pairs[1].target, <<pairs[1].source>>)>>
         \o PairInstructions(Tail(pairs))

\* "for title, folder_list in cross_day_candidates" of L4Processor._process_user_folder
RECURSIVE L4GroupLoop(_, _, _, _, _, _, _, _)
L4GroupLoop(name, P, grouped, keys, orders, i, total_merged, steps) ==
    IF i > Len(keys) THEN [tree |-> P, merged |-> total_merged, events |-> steps]
    ELSE LET cross_day_pairs_i ==
                 find_cross_day_pairs(grouped[keys[i]], MediaOf(P), MergeIntervalL4)
             instr == PairInstructions(cross_day_pairs_i)
             derived == Append(steps, Step("derive", name, instr))
         IN IF cross_day_pairs_i # <<>>
            THEN LET r == execute_cross_day_merges(P, cross_day_pairs_i, orders, 1, 0)
                 IN L4GroupLoop(name, r.tree, grouped, keys, orders, i + 1,
                                total_merged + r.count,
                                Append(derived, Step("execute", name, instr)))
            ELSE L4GroupLoop(name, P, grouped, keys, orders, i + 1, total_merged, derived)

\* L4Processor._process_user_folder: [tree, outcome, events]
L4Processor_process_user_folder(name, P, listing, orders) ==
    LET folder_groups ==
            BaseFolderIndexer_scan_and_index("TitleBasedIndexer", P, listing).groups
        cross_day_candidates ==
            indexer_get_mergeable_groups("TitleBasedIndexer", P, listing, folder_groups)
        scanned == <<Step("scan", name, <<>>)>>
    IN IF cross_day_candidates = <<>>
       THEN [tree |-> P, outcome |-> add_skipped(name, "no cross-day candidates"),
             events |-> Append(scanned, Step("report", name, <<>>))]
       ELSE LET r == L4GroupLoop(name, P, folder_groups, cross_day_candidates, orders,
                                 1, 0, scanned)
                removed == empty_folders_removed(r.tree)
            IN [tree |-> cleanup_empty_folders(r.tree),
                outcome |-> UserOutcome(name, r.merged, removed, "no cross-day merge needed"),
                events |-> r.events \o <<Step("prune", name, <<>>),
                                         Step("report", name, <<>>)>>]

\* total_fixed of L5Processor._process_user_folder
RECURSIVE TotalFixed(_)
TotalFixed(calls) ==
    IF calls = <<>> THEN 0 ELSE calls[1].merged + TotalFixed(Tail(calls))

\* the steps of the fixes of an L5 pass: each error folder with a matching
\* normal folder is fixed as soon as the match is found
RECURSIVE FixSteps(_, _)
FixSteps(name, calls) ==
    IF calls = <<>> THEN <<>>
    ELSE LET instr == <<Instruction(calls[1].target, calls[1].folders)>>
         IN <<Step("derive", name, instr), Step("execute", name, instr)>>
            \o FixSteps(name, Tail(calls))

\* L5Processor._process_user_folder, the scan of a fresh FlvFileManager
\* included: the results [tree, outcome, events], one for each way the
\* cache can be filled
L5Processor_process_user_folder(name, P, listing, orders) ==
    {LET scanned == <<Step("scan", name, <<>>)>>
     IN IF scan.errors = <<>>
        THEN [tree |-> P, outcome |-> add_skipped(name, "no error-time folders"),
              events |-> Append(scanned, Step("report", name, <<>>))]
        ELSE LET r == FixLoop(P, scan.errors, scan.normal, orders, 1, <<>>)
                 removed == empty_folders_removed(r.tree)
             IN [tree |-> L5_process_user_folder(P, scan, orders).tree,
                 outcome |-> UserOutcome(name, TotalFixed(r.calls), removed, "no fix needed"),
                 events |-> scanned \o FixSteps(name, r.calls)
                            \o <<Step("prune", name, <<>>), Step("report", name, <<>>)>>]
     : scan \in ErrorTimeIndexer_scan_and_index(NoCache, P, listing)}

\* BLREC.merge_folders with the statistics of the BLREC object: one success
\* named by the title for each group with merged_count > 0
RECURSIVE BlrecOutcomes(_)
BlrecOutcomes(calls) ==
    IF calls = <<>> THEN <<>>
    ELSE (IF calls[1].merged > 0
          THEN <<add_success_with_name(DirName(NoStamp, calls[1].target.title, "", ""),
                                       calls[1].merged, 0)>>
          ELSE <<>>)
         \o BlrecOutcomes(Tail(calls))

\* the merges of a BLREC pass as steps
RECURSIVE CallSteps(_, _)
CallSteps(name, calls) ==
    IF calls = <<>> THEN <<>>
    ELSE LET instr == <<Instruction(calls[1].target, calls[1].folders)>>
         IN <<Step("derive", name, instr), Step("execute", name, instr)>>
            \o CallSteps(name, Tail(calls))

\* recheme_skip_keys of the configuration: "any(substring in subfolder ...)"
\* finds the closed tool-A suffixes and "1970"
InSkipKeys(n) == n.tag \in {"blrec-flv", "blrec-hls"} \/ n.stamp = ErrorDate

\* RECHEME._scan_and_group_by_time on a user folder whose session folders
\* hold no folders: time_info -> the folders in the order os.walk lists them
RECURSIVE scan_and_group_by_time(_, _, _, _)
scan_and_group_by_time(P, listing, i, time_groups) ==
    IF i > Len(listing) THEN time_groups
    ELSE LET subfolder == listing[i]
             folder_info == parse_folder_name(subfolder)
         IN IF P[subfolder].kind # "dir" \/ InSkipKeys(subfolder) \/ folder_info = NoInfo
            THEN scan_and_group_by_time(P, listing, i + 1, time_groups)
            ELSE scan_and_group_by_time(
                     P, listing, i + 1,
                     Put(time_groups, folder_info.date,
                         (IF folder_info.date \in DOMAIN time_groups
                          THEN time_groups[folder_info.date] ELSE <<>>)
                         \o <<subfolder>>))

\* the keys of time_groups in dict (insertion) order
RECURSIVE TimeKeyOrder(_, _, _, _)
TimeKeyOrder(P, listing, i, seen) ==
    IF i > Len(listing) THEN <<>>
    ELSE LET subfolder == listing[i]
             folder_info == parse_folder_name(subfolder)
         IN IF P[subfolder].kind # "dir" \/ InSkipKeys(subfolder) \/ folder_info = NoInfo
               \/ folder_info.date \in seen
            THEN TimeKeyOrder(P, listing, i + 1, seen)
            ELSE <<folder_info.date>>
                 \o TimeKeyOrder(P, listing, i + 1, seen \cup {folder_info.date})

\* The str order of two names of one stamp: by the text after the stamp
TitleRank(title) == CASE title = "A" -> 1 [] title = "B" -> 2 [] OTHER -> 3
NameKey(n) == 4 * TitleRank(n.title) + (IF n.tag = "" THEN 0 ELSE 1)

\* RECHEME._select_main_folder: sorted(subfolder_list)[0]
select_main_folder(subfolder_list) ==
    LET S == {subfolder_list[i] : i \in 1..Len(subfolder_list)}
    IN CHOOSE m \in S : \A x \in S : NameKey(m) <= NameKey(x)

\* RECHEME._merge_subfolders
merge_subfolders(P, main_folder, subfolders_to_merge, orders) ==
    LET folders_to_merge ==
            SelectSeq(subfolders_to_merge,
                      LAMBDA folder : folder # main_folder /\ ~InSkipKeys(folder)
                                      /\ folder \in DOMAIN P)
    IN IF folders_to_merge # <<>>
       THEN merge_folder_list_to_target(P, folders_to_merge, main_folder, orders).tree
       ELSE P

\* "for time_info, subfolder_list in mergeable_groups" of RECHEME.merge_folders:
\* one success named by the time group for each group, merged or not
RECURSIVE RechemeGroupLoop(_, _, _, _, _, _, _, _)
RechemeGroupLoop(name, P, time_groups, keys, orders, i, outcomes, steps) ==
    IF i > Len(keys) THEN [tree |-> P, outcomes |-> outcomes, events |-> steps]
    ELSE LET subfolder_list == time_groups[keys[i]]
             main_folder == select_main_folder(subfolder_list)
             instr == <<Instruction(main_folder,
                                    SelectSeq(subfolder_list,
                                              LAMBDA folder : folder # main_folder))>>
         IN RechemeGroupLoop(
                name, merge_subfolders(P, main_folder, subfolder_list, orders),
                time_groups, keys, orders, i + 1,
                Append(outcomes,
                       add_success_with_name(DirName(keys[i], "time group", "", ""), 0, 0)),
                steps \o <<Step("derive", name, instr), Step("execute", name, instr)>>)

\* RECHEME.merge_folders: [tree, outcomes, events]
RECHEME_merge_folders(name, P, listing, orders) ==
    LET time_groups == scan_and_group_by_time(P, listing, 1, NoGroups)
        mergeable_groups == SelectSeq(TimeKeyOrder(P, listing, 1, {}),
                                      LAMBDA k : Len(time_groups[k]) > 1)
    IN RechemeGroupLoop(name, P, time_groups, mergeable_groups, orders, 1, <<>>,
                        <<Step("scan", name, <<>>)>>)

\* L2Processor._is_blrec_folder: the opening of a tool-A suffix occurs in the name
is_blrec_folder(folder_name) == folder_name.tag # ""

\* L2Processor._process_single_folder: the tree and what the BLREC and the
\* RECHEME object add to their own statistics
L2Processor_process_single_folder(name, P, listing, orders) ==
    IF is_blrec_folder(name)
    THEN LET r == BLREC_merge_folders(P, listing, orders)
         IN [tree |-> r.tree, blrec |-> BlrecOutcomes(r.calls), recheme |-> <<>>,
             events |-> <<Step("scan", name, <<>>)>> \o CallSteps(name, r.calls)]
    ELSE LET r == RECHEME_merge_folders(name, P, listing, orders)
         IN [tree |-> r.tree, blrec |-> <<>>, recheme |-> r.outcomes, events |-> r.events]

----------------------------------------------------------------------------
(* Sampled inputs *)

GridTimes == {k * 30 : k \in 0..MaxTick}

SeqsUpTo(S, n) == UNION {[1..k -> S] : k \in 0..n}

IsSortedByDate(list) ==
    \A i \in 1..Len(list) : \A j \in 1..Len(list) : i < j => list[i].date <= list[j].date

\* A (date, title) group as BaseFolderIndexer.scan_and_index leaves it:
\* sorted ascending by nominal date; the path of a folder is its position.
L3Groups ==
    {list \in {[i \in 1..Len(ds) |-> [path |-> i, date |-> ds[i]]] :
                   ds \in SeqsUpTo(GridTimes, MaxLen)} : IsSortedByDate(list)}

\* Nominal dates around two midnights: day 0 19:59:59, 20:00:00, 23:50:53,
\* day 1 00:22:58, 04:59:59, 05:00:00, day 2 00:10:00
L4Dates == {71999, 72000, 85853, 87778, 104399, 104400, 173400}

\* Latest media modification times: day 0 23:58:25, day 1 00:10:00
L4ModTimes == {86305, 87000}

\* First media creation times: day 1 00:22:58, day 1 00:28:25, day 2 00:03:20
L4CreateTimes == {87778, 88105, 173000}

\* Configured cross-day thresholds (seconds)
L4Thresholds == {1200, 1800}

\* A title group as scan_and_index leaves it (sorted by nominal date).
L4Groups ==
    {list \in {[i \in 1..Len(ds) |-> [path |-> i, date |-> ds[i]]] :
                   ds \in SeqsUpTo(L4Dates, MaxPairLen)} : IsSortedByDate(list)}

MediaFacts == [mod : L4ModTimes \cup {NoTime}, info : BOOLEAN,
               ctime : L4CreateTimes \cup {NoTime}]

L5Titles == {"Show", "Other"}

\* Recovered times of day: 00:30:00, 06:59:59, 07:00:00, 19:08:44
L5DayTimes == {1800, 25199, 25200, 68924}

\* Nominal time of day of the normal folders: 19:12:46
L5NormalDayTime == 69166

L5Keys == (0..MaxDay) \X L5Titles

\* normal_folders as ErrorTimeIndexer.scan_and_index builds it: the key of an
\* entry is (date.date(), title) of the FolderInfo stored under it.
L5NormalIndexes ==
    {[key \in keys |->
        LET date == key[1] * DaySeconds + L5NormalDayTime
        IN [path |-> [date |-> date, title |-> key[2]], date |-> date, title |-> key[2]]]
     : keys \in SUBSET L5Keys}

\* error_folders entries: the name keeps the sentinel date, FolderInfo.date is
\* the date recovered from the media filename.
L5ErrorFolders ==
    {[path |-> [date |-> ErrorDate, title |-> t], date |-> d * DaySeconds + s, title |-> t]
     : d \in 1..MaxDay, s \in L5DayTimes, t \in L5Titles}

IdleL5 == normal_folders = <<>> /\ error_folder = NoFolder /\ instruction = NoInstruction

IdleL3 == folder_list = <<>> /\ flv_times = <<>> /\ merge_chains = <<>>
IdleL4 == cd_list = <<>> /\ cd_media = <<>> /\ merge_interval = 0 /\ cross_day_pairs = <<>>

NoTree == [f \in {} |-> DirNode(NoEntries)]
NoOp == [name |-> "none", source |-> FolderName(NoTime, ""), target |-> FolderName(NoTime, ""),
         ok |-> FALSE]
NoCrash == [active |-> FALSE, source |-> FolderName(NoTime, ""),
            target |-> FolderName(NoTime, ""), items |-> {}, at |-> 0]
NoRemovals == [h \in 1..MaxHash |-> 0]

IdleFS ==
    /\ tree = NoTree /\ tree0 = NoTree /\ pre = NoTree /\ op = NoOp
    /\ removed_log = NoRemovals /\ conflicted = FALSE /\ recording_status = NoStatus
IdleRun == passes = 0 /\ last_instr = 0 /\ crash = NoCrash
IdleIx ==
    /\ groups = NoGroups /\ skipped_folders = <<>> /\ error_folders = <<>>
    /\ merge_calls = <<>>
NoAnswers == [q \in {} |-> NoTime]
IdleProbe == cache = NoCache /\ answers = NoAnswers
IdleProc == stats = <<>> /\ events = <<>> /\ target = NoTree /\ api_ok = TRUE

InitChain ==
    /\ pc = "start"
    /\ folder_list \in L3Groups
    /\ flv_times \in [1..Len(folder_list) -> GridTimes \cup {NoTime}]
    /\ merge_chains = <<>>
    /\ IdleL4 /\ IdleL5 /\ IdleFS /\ IdleRun /\ IdleIx /\ IdleProbe /\ IdleProc

FindMergeChains ==
    /\ pc = "start"
    /\ merge_chains' = find_merge_chains(folder_list, flv_times)
    /\ pc' = "done"
    /\ UNCHANGED <<procvars, ixvars, probevars, folder_list, flv_times, l4vars, l5vars, fsvars, runvars>>

NextChain == FindMergeChains

SpecChain == InitChain /\ [][NextChain]_vars

\* Groups of up to MaxGroup folders, the latest media of a folder written at
\* its nominal date or up to a minute after it, or missing
LateBy == {0, 30, 60}
InitChains ==
    /\ pc = "start"
    /\ folder_list \in {list \in {[i \in 1..Len(ds) |-> [path |-> i, date |-> ds[i]]] :
                                     ds \in SeqsUpTo(GridTimes, MaxGroup)} :
                            IsSortedByDate(list)}
    /\ flv_times \in {f \in [1..Len(folder_list) -> GridTimes \cup {NoTime, (MaxTick + 1) * 30,
                                                                    (MaxTick + 2) * 30}] :
                          \A i \in 1..Len(folder_list) :
                              f[i] = NoTime \/ f[i] - folder_list[i].date \in LateBy}
    /\ merge_chains = <<>>
    /\ IdleL4 /\ IdleL5 /\ IdleFS /\ IdleRun /\ IdleIx /\ IdleProbe /\ IdleProc

SpecChains == InitChains /\ [][NextChain]_vars

InitCrossDay ==
    /\ pc = "start"
    /\ cd_list \in L4Groups
    /\ cd_media \in [1..Len(cd_list) -> MediaFacts]
    /\ merge_interval \in L4Thresholds
    /\ cross_day_pairs = <<>>
    /\ IdleL3 /\ IdleL5 /\ IdleFS /\ IdleRun /\ IdleIx /\ IdleProbe /\ IdleProc

FindCrossDayPairs ==
    /\ pc = "start"
    /\ cross_day_pairs' = find_cross_day_pairs(cd_list, cd_media, merge_interval)
    /\ pc' = "done"
    /\ UNCHANGED <<procvars, ixvars, probevars, cd_list, cd_media, merge_interval, l3vars, l5vars, fsvars, runvars>>

NextCrossDay == FindCrossDayPairs

SpecCrossDay == InitCrossDay /\ [][NextCrossDay]_vars

InitErrorTime ==
    /\ pc = "start"
    /\ normal_folders \in L5NormalIndexes
    /\ error_folder \in L5ErrorFolders
    /\ instruction = NoInstruction
    /\ IdleL3 /\ IdleL4 /\ IdleFS /\ IdleRun /\ IdleIx /\ IdleProbe /\ IdleProc

MatchErrorFolder ==
    /\ pc = "start"
    /\ instruction' = L5Instruction(normal_folders, error_folder)
    /\ pc' = "done"
    /\ UNCHANGED <<procvars, ixvars, probevars, normal_folders, error_folder, l3vars, l4vars, fsvars, runvars>>

NextErrorTime == MatchErrorFolder

SpecErrorTime == InitErrorTime /\ [][NextErrorTime]_vars

----------------------------------------------------------------------------
(* The merge operations on two sibling session folders (SpecMerge) *)

FolderA == FolderName(36000, "Show")
FolderB == FolderName(37830, "Show")
MergeFolders == {FolderA, FolderB}

MergeNames == {"a.flv", "sub"}
FileOptions == {FileNode(h, 0) : h \in 1..MaxHash}
SubOptions ==
    {FileNode(1, 0), DirNode(NoEntries)}
        \cup {DirNode([n \in {"x.flv"} |-> FileNode(h, 0)]) : h \in 1..MaxHash}
MergeDirs ==
    {DirNode(e) : e \in UNION {
        {g \in [dom -> FileOptions \cup SubOptions] :
            \A n \in dom : IF n = "sub" THEN g[n] \in SubOptions ELSE g[n] \in FileOptions}
        : dom \in SUBSET MergeNames}}

\* the os.listdir orders of the folders fs of P: folder -> order of its entries
RECURSIVE Orders(_, _)
Orders(P, fs) ==
    IF fs = {} THEN {[f \in {} |-> <<>>]}
    ELSE LET f == CHOOSE x \in fs : TRUE
         IN {Put(o, f, q) : o \in Orders(P, fs \ {f}), q \in Perms(ListDir(P, f))}

\* the folders a pass over P lists the entries of: the sources of its merges
Sources(merges) == {merges[i].source : i \in 1..Len(merges)}

\* the names that are files in both folders
Collisions(P, s, t) ==
    {item \in ListDir(P, s) \cap ListDir(P, t) : ItemIsFile(P, s, item) /\ ItemIsFile(P, t, item)}

\* a same-name / different-content pair of files in source and target
HasConflict(P, s, t) ==
    \E item \in Collisions(P, s, t) : P[s].entries[item].hash # P[t].entries[item].hash

InitMerge ==
    /\ pc = "merge"
    /\ tree \in [MergeFolders -> MergeDirs]
    /\ tree0 = tree /\ pre = tree /\ op = NoOp
    /\ removed_log = NoRemovals /\ conflicted = FALSE /\ recording_status = NoStatus
    /\ IdleL3 /\ IdleL4 /\ IdleL5 /\ IdleRun /\ IdleIx /\ IdleProbe /\ IdleProc

MergeFolderContents(s, t) ==
    /\ passes < MaxOps
    /\ passes' = passes + 1
    /\ \E order \in Perms(ListDir(tree, s)) :
        LET r == merge_folder_contents(tree, s, t, order)
        IN /\ tree' = r.tree
           /\ pre' = tree
           /\ op' = [name |-> "merge_folder_contents", source |-> s, target |-> t, ok |-> r.ok]
           /\ conflicted' = (conflicted \/ HasConflict(tree, s, t))
           /\ UNCHANGED <<procvars, ixvars, probevars, pc, tree0, removed_log, recording_status, last_instr, crash, l3vars, l4vars, l5vars>>

MergeFolderListToTarget(s, t) ==
    /\ passes < MaxOps
    /\ passes' = passes + 1
    /\ \E folders \in {<<s>>, <<t, s>>} :
       \E order \in Perms(ListDir(tree, s)) :
        LET r == merge_folder_list_to_target(tree, folders, t, [f \in {s} |-> order])
        IN /\ tree' = r.tree
           /\ pre' = tree
           /\ op' = [name |-> "merge_folder_list_to_target", source |-> s, target |-> t,
                     ok |-> r.count > 0]
           /\ conflicted' = (conflicted \/ HasConflict(tree, s, t))
           /\ UNCHANGED <<procvars, ixvars, probevars, pc, tree0, removed_log, recording_status, last_instr, crash, l3vars, l4vars, l5vars>>

MoveFolderAdvanced(s, t) ==
    /\ passes < MaxOps
    /\ passes' = passes + 1
    /\ \E order \in Perms(ListDir(tree, s)) :
       \E unreadable \in SUBSET ({s, t} \X Collisions(tree, s, t)) :
        LET r == move_folder_advanced(tree, s, t, order, unreadable, NoStatus)
        IN /\ tree' = r.tree
           /\ pre' = tree
           /\ op' = [name |-> "move_folder_advanced", source |-> s, target |-> t, ok |-> r.ok]
           /\ removed_log' = [h \in 1..MaxHash |-> removed_log[h]
                  + Cardinality({item \in r.removed : tree[s].entries[item].hash = h})]
           /\ conflicted' = (conflicted \/ HasConflict(tree, s, t))
           /\ UNCHANGED <<procvars, ixvars, probevars, pc, tree0, recording_status, last_instr, crash, l3vars, l4vars, l5vars>>

NextMerge ==
    \E s, t \in MergeFolders :
        /\ s # t
        /\ \/ MergeFolderContents(s, t)
           \/ MergeFolderListToTarget(s, t)
           \/ MoveFolderAdvanced(s, t)

SpecMerge == InitMerge /\ [][NextMerge]_vars

----------------------------------------------------------------------------
(* The L3 processor run again and again on one user folder (SpecRun) *)

\* Nominal dates: day 0 10:00:00, 10:30:30, 11:00:20, day 1 10:00:00
RunDates == {36000, 37830, 39620, 122400}
\* Media modification times: day 0 10:30:00, 11:00:00
RunModTimes == {37800, 39600}
RunNames == {"a.flv", "b.flv", "c.flv"}

RunFolderNames == {FolderName(d, "Show") : d \in RunDates}
\* a session folder holds fewer than MaxFiles of them
RunDirs ==
    {DirNode(e) : e \in UNION {[dom -> {FileNode(1, m) : m \in RunModTimes}]
                     : dom \in {x \in SUBSET RunNames : Cardinality(x) < MaxFiles}}}
FileCount(P) == Cardinality({x \in (DOMAIN P) \X RunNames : x[2] \in ListDir(P, x[1])})

InitRun ==
    /\ pc = "run"
    /\ tree \in UNION {[fs -> RunDirs]
                          : fs \in {x \in SUBSET RunFolderNames : Cardinality(x) <= MaxFolders}}
    /\ FileCount(tree) <= MaxFiles
    /\ tree0 = tree /\ pre = tree /\ op = NoOp
    /\ removed_log = NoRemovals /\ conflicted = FALSE /\ recording_status = NoStatus
    /\ passes = 0 /\ last_instr = 0 /\ crash = NoCrash
    /\ IdleL3 /\ IdleL4 /\ IdleL5 /\ IdleIx /\ IdleProbe /\ IdleProc

\* One run of L3Processor._process_user_folder
L3Pass ==
    /\ passes < MaxPasses
    /\ \E orders \in Orders(tree, Sources(derived_merges(tree))) :
        LET r == process_user_folder(tree, orders)
        IN /\ tree' = r.tree
           /\ pre' = tree
           /\ op' = [name |-> "L3", source |-> FolderName(NoTime, ""),
                     target |-> FolderName(NoTime, ""), ok |-> r.merged > 0]
           /\ passes' = passes + 1
           /\ last_instr' = r.chains
    /\ UNCHANGED <<procvars, ixvars, probevars, pc, tree0, removed_log, conflicted, recording_status, crash, l3vars, l4vars, l5vars>>

\* A run of L3Processor._process_user_folder killed inside
\* move_files_between_folders, after k of the source's entries were moved
InterruptedPass ==
    /\ passes < MaxPasses
    /\ ~crash.active
    /\ \E orders \in Orders(tree, Sources(derived_merges(tree))) :
        LET merges == derived_merges(tree)
        IN \E n \in 1..Len(merges) :
            LET P1 == ExecPrefix(tree, merges, orders, 1, n - 1)
                s == merges[n].source
                t == merges[n].target
                order == orders[s]
            IN \E k \in 1..(Len(order) - 1) :
                /\ \A i \in 1..k : ~ItemExists(P1, t, order[i])
                /\ tree' = MovePrefix(P1, s, t, order, 1, k)
                /\ pre' = tree
                /\ op' = [name |-> "L3 killed", source |-> s, target |-> t, ok |-> FALSE]
                /\ crash' = [active |-> TRUE, source |-> s, target |-> t,
                             items |-> ListDir(P1, s), at |-> passes]
    /\ UNCHANGED <<procvars, ixvars, probevars, pc, tree0, removed_log, conflicted, recording_status, passes,
                   last_instr, l3vars, l4vars, l5vars>>

NextRun == L3Pass \/ InterruptedPass

SpecRun == InitRun /\ [][NextRun]_vars

----------------------------------------------------------------------------
(* Pruning empty directories under a recording-status dict (SpecPrune) *)

PruneRoot == "root"
\* "a" names a file or a directory, "b" a directory
PruneNames == {"a", "b"}

\* the directories with at most k directory levels below them
RECURSIVE PruneDirs(_)
PruneDirs(k) ==
    IF k = 0 THEN {DirNode(NoEntries)}
    ELSE {DirNode(e) : e \in UNION {
             {g \in [dom -> PruneDirs(k - 1) \cup {FileNode(1, 0)}] :
                 \A n \in dom : n = "b" => g[n].kind = "dir"}
             : dom \in SUBSET PruneNames}}

\* a status entry: idle, recording, streaming
StatusValues ==
    {[recording |-> FALSE, streaming |-> FALSE], [recording |-> TRUE, streaming |-> FALSE],
     [recording |-> FALSE, streaming |-> TRUE]}
StatusDicts == UNION {[dom -> StatusValues] : dom \in SUBSET (PruneNames \cup {PruneRoot})}

InitPrune ==
    /\ pc = "prune"
    /\ tree \in {[r \in {PruneRoot} |-> d] : d \in PruneDirs(MaxDepth)}
    /\ recording_status \in StatusDicts
    /\ tree0 = tree /\ pre = tree /\ op = NoOp
    /\ removed_log = NoRemovals /\ conflicted = FALSE
    /\ IdleL3 /\ IdleL4 /\ IdleL5 /\ IdleRun /\ IdleIx /\ IdleProbe /\ IdleProc

\* FileOperations.cleanup_empty_folders_recursive(root, recording_status)
CleanupEmptyFoldersRecursive ==
    /\ pc = "prune"
    /\ tree' = cleanup_empty_folders_recursive(tree, PruneRoot, recording_status)
    /\ pre' = tree
    /\ op' = [NoOp EXCEPT !.name = "cleanup_empty_folders_recursive"]
    /\ pc' = "pruned"
    /\ UNCHANGED <<procvars, ixvars, probevars, tree0, removed_log, conflicted, recording_status, l3vars, l4vars, l5vars,
                   runvars>>

\* move.delete_empty_folders(root, recording_status)
DeleteEmptyFolders ==
    /\ pc = "prune"
    /\ tree' = delete_empty_folders(tree, PruneRoot, recording_status)
    /\ pre' = tree
    /\ op' = [NoOp EXCEPT !.name = "delete_empty_folders"]
    /\ pc' = "pruned"
    /\ UNCHANGED <<procvars, ixvars, probevars, tree0, removed_log, conflicted, recording_status, l3vars, l4vars, l5vars,
                   runvars>>

NextPrune == CleanupEmptyFoldersRecursive \/ DeleteEmptyFolders

SpecPrune == InitPrune /\ [][NextPrune]_vars

----------------------------------------------------------------------------
(* SpecIndex: the indexers, the BLREC merge and the L5 pass on one user folder *)

\* Session folders of one user folder: three tool-A folders of one
\* (day, title, suffix) at 10:00:00, 10:03:00, 10:05:00, a fourth whose name
\* goes on after the bracket, the same show with the other suffix, on the
\* next day and under another title, a generic folder, two corrupted-timestamp
\* folders, and three names that parse to nothing.
IxNames ==
    {DirName(36000, "A", "blrec-flv", ""), DirName(36180, "A", "blrec-flv", ""),
     DirName(36300, "A", "blrec-flv", ""), DirName(36000, "A", "blrec-flv", "x"),
     DirName(36180, "A", "blrec-hls", ""), DirName(122400, "A", "blrec-flv", ""),
     DirName(36000, "B", "blrec-flv", ""), DirName(36300, "A", "", ""),
     DirName(ErrorDate, "A", "", ""), DirName(ErrorDate, "B", "", ""),
     DirName(NoStamp, "misc", "", ""), DirName(BadStamp, "A", "", ""),
     DirName(36000, "A", "blrec-", "")}

\* A tool-A folder lying one level below a session folder
NestedName == "20250521-100500_A[blrec-flv]"
NestedKey == GroupKey(0, "A", "blrec-flv")

\* What a folder holds. A corrupted-timestamp folder: nothing, a media file
\* whose digits are no date, one with a date token, a token file next to a later (or
\* equally late) file without one. A tool-A folder: nothing or one media
\* file. A generic or unparsable folder: nothing, a media file, a nested
\* tool-A folder.
IxEntries(n) ==
    IF n.stamp = ErrorDate
    THEN {NoEntries,
          [x \in {"20251399-100200_A.flv"} |-> FileNode(1, 36600)],
          [x \in {"20250521-100200_A.flv"} |-> FileNode(1, 36600)],
          [x \in {"20250521-100200_A.flv", "x.flv"} |->
              IF x = "x.flv" THEN FileNode(2, 37200) ELSE FileNode(1, 36600)],
          [x \in {"20250521-100200_A.flv", "x.flv"} |->
              IF x = "x.flv" THEN FileNode(2, 36600) ELSE FileNode(1, 36600)]}
    ELSE IF n.tag \in {"blrec-flv", "blrec-hls"}
    THEN {NoEntries,
          [x \in {"a.flv"} |-> FileNode(1, 36600)],
          [x \in {"b.flv"} |-> FileNode(2, 36600)]}
    ELSE IF n.tag = "" /\ n.stamp # BadStamp
    THEN {NoEntries,
          [x \in {"a.flv"} |-> FileNode(1, 36600)],
          [x \in {NestedName} |-> DirNode(NoEntries)]}
    ELSE {NoEntries}

\* An unparsable name may also be that of a plain file
IxNodes(n) ==
    {DirNode(e) : e \in IxEntries(n)}
    \cup (IF n.stamp = NoStamp THEN {FileNode(1, 36600)} ELSE {})

RECURSIVE IxTrees(_)
IxTrees(S) ==
    IF S = {} THEN {NoTree}
    ELSE LET n == CHOOSE x \in S : TRUE
         IN {Put(t, n, node) : t \in IxTrees(S \ {n}), node \in IxNodes(n)}

Indexers == {"TimeBasedIndexer", "TitleBasedIndexer", "BlrecIndexer"}

InitIndex ==
    /\ pc = "index"
    /\ \E S \in SUBSET IxNames :
          /\ Cardinality(S) <= MaxFolders
          /\ tree \in IxTrees(S)
    /\ tree0 = tree /\ pre = tree /\ op = NoOp
    /\ removed_log = NoRemovals /\ conflicted = FALSE /\ recording_status = NoStatus
    /\ IdleL3 /\ IdleL4 /\ IdleL5 /\ IdleRun /\ IdleIx /\ IdleProbe /\ IdleProc

\* indexer.scan_and_index(user_folder_path) of a generic indexer
ScanAndIndex(indexer) ==
    /\ pc = "index"
    /\ \E listing \in Perms(DOMAIN tree) :
          LET r == BaseFolderIndexer_scan_and_index(indexer, tree, listing)
          IN /\ groups' = r.groups
             /\ skipped_folders' = r.skipped
    /\ op' = [NoOp EXCEPT !.name = indexer]
    /\ pc' = "indexed"
    /\ UNCHANGED <<procvars, tree, tree0, pre, removed_log, conflicted, recording_status,
                   error_folders, merge_calls, l3vars, l4vars, l5vars, runvars, probevars>>

\* ErrorTimeIndexer.scan_and_index(user_folder_path)
ErrorTimeScanAndIndex ==
    /\ pc = "index"
    /\ \E listing \in Perms(DOMAIN tree) :
          \E r \in ErrorTimeIndexer_scan_and_index(cache, tree, listing) :
              /\ error_folders' = r.errors
              /\ normal_folders' = r.normal
              /\ cache' = r.cache
    /\ op' = [NoOp EXCEPT !.name = "ErrorTimeIndexer"]
    /\ pc' = "indexed"
    /\ UNCHANGED <<procvars, tree, tree0, pre, removed_log, conflicted, recording_status,
                   groups, skipped_folders, merge_calls, error_folder, instruction,
                   answers, l3vars, l4vars, runvars>>

\* BLREC.merge_folders(folder_path)
BlrecMergeFolders ==
    /\ pc = "index"
    /\ \E listing \in Perms(DOMAIN tree) :
          \E orders \in Orders(tree, DOMAIN tree) :
              LET r == BLREC_merge_folders(tree, listing, orders)
              IN /\ tree' = r.tree
                 /\ groups' = r.groups
                 /\ merge_calls' = r.calls
    /\ pre' = tree
    /\ op' = [NoOp EXCEPT !.name = "BLREC"]
    /\ pc' = "merged"
    /\ UNCHANGED <<procvars, tree0, removed_log, conflicted, recording_status, skipped_folders,
                   error_folders, l3vars, l4vars, l5vars, runvars, probevars>>

\* L5Processor._process_user_folder(user_folder_path, user_folder_name)
L5ProcessUserFolder ==
    /\ pc = "index"
    /\ \E listing \in Perms(DOMAIN tree) :
          \E scan \in ErrorTimeIndexer_scan_and_index(cache, tree, listing) :
              \E orders \in Orders(tree, DOMAIN tree) :
                  LET r == L5_process_user_folder(tree, scan, orders)
                  IN /\ tree' = r.tree
                     /\ merge_calls' = r.calls
                     /\ error_folders' = scan.errors
                     /\ normal_folders' = scan.normal
                     /\ cache' = scan.cache
    /\ pre' = tree
    /\ op' = [NoOp EXCEPT !.name = "L5Processor"]
    /\ pc' = "merged"
    /\ UNCHANGED <<procvars, tree0, removed_log, conflicted, recording_status, groups,
                   skipped_folders, error_folder, instruction, answers,
                   l3vars, l4vars, runvars>>

NextIndex ==
    \/ \E indexer \in Indexers : ScanAndIndex(indexer)
    \/ ErrorTimeScanAndIndex
    \/ BlrecMergeFolders
    \/ L5ProcessUserFolder

SpecIndex == InitIndex /\ [][NextIndex]_vars

----------------------------------------------------------------------------
(* SpecProbe: the media facts of two folders, queried before and after
   merges; a run makes at most MaxPasses queries and merges *)

ProbeFile(h, m, c) ==
    [kind |-> "file", hash |-> h, mtime |-> m, entries |-> NoEntries, ctime |-> c]

\* the time of the run, later than every time on the disk
ProbeNow == 12 * HourSeconds

ProbeEntries ==
    {NoEntries,
     [x \in {"a.flv"} |-> ProbeFile(1, 37800, 36000)],
     [x \in {"b.flv"} |-> ProbeFile(2, 39600, 37830)],
     [x \in {"20250521-100200_A.flv"} |-> ProbeFile(1, 37000, 36120)],
     [x \in {"a.flv", "20250521-100200_A.flv"} |->
         IF x = "a.flv" THEN ProbeFile(1, 37800, 36000) ELSE ProbeFile(1, 37000, 36120)]}

ProbeFacts == {"has_flv_file", "extract_flv_date_from_filename",
               "get_flv_modification_time", "get_first_flv_creation_time"}

InitProbe ==
    /\ pc = "probe"
    /\ tree \in [MergeFolders -> {DirNode(e) : e \in ProbeEntries}]
    /\ tree0 = tree /\ pre = tree /\ op = NoOp
    /\ removed_log = NoRemovals /\ conflicted = FALSE /\ recording_status = NoStatus
    /\ cache = NoCache /\ answers = NoAnswers
    /\ IdleL3 /\ IdleL4 /\ IdleL5 /\ IdleRun /\ IdleIx /\ IdleProc

\* the answer to query q joins the history: the first answer and the last
Answered(q, v) ==
    IF q \in DOMAIN answers THEN [answers EXCEPT ![q].last = v]
    ELSE Put(answers, q, [first |-> v, last |-> v])

HasFlvFile(d) ==
    /\ pc = "probe" /\ passes < MaxPasses
    /\ passes' = passes + 1
    /\ \E r \in has_flv_file(cache, tree, d) :
          /\ cache' = r.cache
          /\ answers' = Answered(<<d, "has_flv_file">>, r.has)
    /\ UNCHANGED <<procvars, pc, l3vars, l4vars, l5vars, fsvars, last_instr, crash, ixvars>>

ExtractFlvDateFromFilename(d) ==
    /\ pc = "probe" /\ passes < MaxPasses
    /\ passes' = passes + 1
    /\ \E r \in extract_flv_date_from_filename(cache, tree, d) :
          /\ cache' = r.cache
          /\ answers' = Answered(<<d, "extract_flv_date_from_filename">>, r.date)
    /\ UNCHANGED <<procvars, pc, l3vars, l4vars, l5vars, fsvars, last_instr, crash, ixvars>>

GetFlvModificationTime(d) ==
    /\ pc = "probe" /\ passes < MaxPasses
    /\ passes' = passes + 1
    /\ answers' = Answered(<<d, "get_flv_modification_time">>,
                           get_flv_modification_time(tree, d))
    /\ UNCHANGED <<procvars, pc, cache, l3vars, l4vars, l5vars, fsvars, last_instr, crash, ixvars>>

GetFirstFlvCreationTime(d) ==
    /\ pc = "probe" /\ passes < MaxPasses
    /\ passes' = passes + 1
    /\ answers' = Answered(<<d, "get_first_flv_creation_time">>,
                           get_first_flv_creation_time(tree, d))
    /\ UNCHANGED <<procvars, pc, cache, l3vars, l4vars, l5vars, fsvars, last_instr, crash, ixvars>>

\* MergeOperations.merge_folder_contents between two queries; whether the
\* rename sets the moved files' ctime to the time of the run is the file
\* system's choice
ProbeMerge(s, t) ==
    /\ pc = "probe" /\ passes < MaxPasses
    /\ passes' = passes + 1
    /\ s # t /\ s \in DOMAIN tree /\ t \in DOMAIN tree
    /\ \E order \in Perms(ListDir(tree, s)) : \E touched \in BOOLEAN :
          LET r == merge_folder_contents(tree, s, t, order)
              moved == DOMAIN r.tree[t].entries \ DOMAIN tree[t].entries
          IN tree' = [r.tree EXCEPT ![t].entries =
                         [n \in DOMAIN @ |->
                             IF touched /\ n \in moved
                             THEN [@[n] EXCEPT !.ctime = ProbeNow]
                             ELSE @[n]]]
    /\ pre' = tree
    /\ UNCHANGED <<procvars, pc, tree0, op, removed_log, conflicted, recording_status,
                   l3vars, l4vars, l5vars, last_instr, crash, ixvars, probevars>>

NextProbe ==
    \/ \E d \in MergeFolders : HasFlvFile(d)
    \/ \E d \in MergeFolders : ExtractFlvDateFromFilename(d)
    \/ \E d \in MergeFolders : GetFlvModificationTime(d)
    \/ \E d \in MergeFolders : GetFirstFlvCreationTime(d)
    \/ \E s, t \in MergeFolders : ProbeMerge(s, t)

SpecProbe == InitProbe /\ [][NextProbe]_vars

----------------------------------------------------------------------------
(* The processors on the path groups: FolderProcessor, L2 to L5 *)

\* A directory name that is no session name
PlainName(text) == DirName(NoStamp, text, "", "")

\* path_config: the path groups in dict order; each has a source path
path_config == <<PlainName("AAA"), PlainName("PPP")>>

\* skip_folders and social_folders of the configuration
skip_folders == {PlainName("skip_test"), PlainName("000")}
social_folders == {PlainName("NIJISANJI")}

\* What a processor carries through a run: the sources of the path groups,
\* its own Statistics, those of the BLREC and RECHEME objects, the steps
Run(T, st, blrec, recheme, steps) ==
    [tree |-> T, stats |-> st, blrec |-> blrec, recheme |-> recheme, events |-> steps]

\* _process_user_folder of L3, L4 or L5 on the entries P of a user folder,
\* under every os.listdir order of the folder and of its session folders
UserRuns(proc, name, P) ==
    UNION {UNION {CASE proc = "L3Processor" ->
                          {L3Processor_process_user_folder(name, P, listing, orders)}
                    [] proc = "L4Processor" ->
                          {L4Processor_process_user_folder(name, P, listing, orders)}
                    [] proc = "L5Processor" ->
                          L5Processor_process_user_folder(name, P, listing, orders)
                  : orders \in Orders(P, DOMAIN P)}
           : listing \in Perms(DOMAIN P)}

\* "for user_folder_name in os.listdir(source_path)" of _process_path_group
\* of L3, L4 and L5, on the entries E of the source: the set of
\* [entries, stats, events] it can end with
RECURSIVE UserLoop(_, _, _, _, _, _)
UserLoop(proc, E, listing, i, st, steps) ==
    IF i > Len(listing) THEN {[entries |-> E, stats |-> st, events |-> steps]}
    ELSE LET user_folder_name == listing[i]
         IN IF E[user_folder_name].kind # "dir"
            THEN UserLoop(proc, E, listing, i + 1, st, steps)
            ELSE IF user_folder_name \in skip_folders
            THEN UserLoop(proc, E, listing, i + 1,
                          Append(st, add_skipped(user_folder_name, "in skip list")), steps)
            ELSE UNION {UserLoop(proc,
                                 [E EXCEPT ![user_folder_name].entries = r.tree],
                                 listing, i + 1, Append(st, r.outcome), steps \o r.events)
                        : r \in UserRuns(proc, user_folder_name,
                                         E[user_folder_name].entries)}

\* L2Processor._process_single_folder under every os.listdir order
SingleFolderRuns(name, P) ==
    UNION {{L2Processor_process_single_folder(name, P, listing, orders)
            : orders \in Orders(P, DOMAIN P)}
           : listing \in Perms(DOMAIN P)}

\* FolderProcessor._process_social_folder with process_func =
\* L2Processor._process_single_folder and no target directory, on the
\* entries S of the social folder: the set of runs r with r.tree = entries
RECURSIVE process_social_folder(_, _, _, _)
process_social_folder(S, listing, i, run) ==
    IF i > Len(listing) THEN {[run EXCEPT !.tree = S]}
    ELSE LET user_folder_name == listing[i]
         IN IF S[user_folder_name].kind # "dir"
            THEN process_social_folder(S, listing, i + 1, run)
            ELSE IF user_folder_name \in skip_folders
            THEN process_social_folder(
                     S, listing, i + 1,
                     [run EXCEPT !.stats = Append(@, add_skipped(user_folder_name,
                                                                 "in skip list (social)"))])
            ELSE UNION {process_social_folder(
                            [S EXCEPT ![user_folder_name].entries = r.tree],
                            listing, i + 1,
                            [run EXCEPT !.blrec = @ \o r.blrec,
                                        !.recheme = @ \o r.recheme,
                                        !.events = @ \o r.events])
                        : r \in SingleFolderRuns(user_folder_name,
                                                 S[user_folder_name].entries)}

\* FolderProcessor._process_folder_structure with process_func =
\* L2Processor._process_single_folder, on the entries E of the source
RECURSIVE process_folder_structure(_, _, _, _)
process_folder_structure(E, listing, i, run) ==
    IF i > Len(listing) THEN {[run EXCEPT !.tree = E]}
    ELSE LET folder_name == listing[i]
         IN IF E[folder_name].kind # "dir"
            THEN process_folder_structure(E, listing, i + 1, run)
            ELSE IF folder_name \in skip_folders
            THEN process_folder_structure(
                     E, listing, i + 1,
                     [run EXCEPT !.stats = Append(@, add_skipped(folder_name,
                                                                 "in skip list"))])
            ELSE IF folder_name \in social_folders
            THEN UNION {UNION {process_folder_structure(
                                   [E EXCEPT ![folder_name].entries = r.tree],
                                   listing, i + 1, r)
                               : r \in process_social_folder(E[folder_name].entries,
                                                             inner, 1, run)}
                        : inner \in Perms(DOMAIN E[folder_name].entries)}
            ELSE UNION {process_folder_structure(
                            [E EXCEPT ![folder_name].entries = r.tree],
                            listing, i + 1,
                            [run EXCEPT !.blrec = @ \o r.blrec,
                                        !.recheme = @ \o r.recheme,
                                        !.events = @ \o r.events])
                        : r \in SingleFolderRuns(folder_name, E[folder_name].entries)}

\* os.listdir(source_path) raises when the source path is no directory
ListdirRaises(T, folder_id) == folder_id \in DOMAIN T /\ T[folder_id].kind # "dir"

\* _process_path_group of the processor on path group folder_id: the runs it
\* can end with; raised tells that it ended with an exception
process_path_group(proc, folder_id, run) ==
    IF folder_id \notin DOMAIN run.tree
    THEN {[run |-> run, raised |-> FALSE]}
    ELSE IF ListdirRaises(run.tree, folder_id)
    THEN {[run |-> run, raised |-> TRUE]}
    ELSE LET E == run.tree[folder_id].entries
         IN IF proc = "L2Processor"
            THEN UNION {{[run |-> [r EXCEPT !.tree = [run.tree EXCEPT
                                                         ![folder_id].entries = r.tree],
                                            !.stats = @ \o r.blrec \o r.recheme],
                          raised |-> FALSE]
                         : r \in process_folder_structure(E, listing, 1, run)}
                        : listing \in Perms(DOMAIN E)}
            ELSE UNION {{[run |-> [run EXCEPT !.tree = [@ EXCEPT ![folder_id].entries =
                                                           r.entries],
                                              !.stats = r.stats,
                                              !.events = r.events],
                          raised |-> FALSE]
                         : r \in UserLoop(proc, E, listing, 1, run.stats, run.events)}
                        : listing \in Perms(DOMAIN E)}

\* A loop over the path groups that ends at the first one that fails
RECURSIVE DoProcessStopAtFailure(_, _, _)
DoProcessStopAtFailure(proc, i, run) ==
    IF i > Len(path_config) THEN {run}
    ELSE UNION {IF r.raised
                THEN {[r.run EXCEPT !.stats =
                          Append(@, add_failed(path_config[i], "NotADirectoryError"))]}
                ELSE DoProcessStopAtFailure(proc, i + 1, r.run)
                : r \in process_path_group(proc, path_config[i], run)}

\* FolderProcessor._do_process: "for folder_id, paths in self.path_config.items()"
\* with its try / except around each path group
RECURSIVE DoProcess(_, _, _)
DoProcess(proc, i, run) ==
    IF i > Len(path_config) THEN {run}
    ELSE UNION {DoProcess(proc, i + 1,
                          IF r.raised
                          THEN [r.run EXCEPT !.stats =
                                   Append(@, add_failed(path_config[i],
                                                        "NotADirectoryError"))]
                          ELSE r.run)
                : r \in process_path_group(proc, path_config[i], run)}

\* BaseProcessor.process of an enabled processor on the sources T
process(proc, T) == DoProcess(proc, 1, Run(T, <<>>, <<>>, <<>>, <<>>))

----------------------------------------------------------------------------
(* SpecProcess: one run of the L2, L3, L4 or L5 processor over the sources
   of two path groups *)

\* Session folders of a user: 10:00:00 and 10:00:30 of day 0 with title A,
\* 10:00:00 with title B, a corrupted timestamp, 23:50:00 of day 0 and
\* 00:00:20 of day 1
ProcNames ==
    {DirName(36000, "A", "", ""), DirName(36030, "A", "", ""), DirName(36000, "B", "", ""),
     DirName(ErrorDate, "A", "", ""), DirName(85800, "A", "", ""),
     DirName(86420, "A", "", "")}

\* What a session folder holds: media files with content, modification time
\* and creation time, or nothing
ProcEntries(n) ==
    CASE n = DirName(36000, "A", "", "") ->
             {NoEntries, [x \in {"a.flv"} |-> ProbeFile(1, 36020, 36000)]}
      [] n = DirName(36030, "A", "", "") ->
             {NoEntries, [x \in {"b.flv"} |-> ProbeFile(2, 36100, 36030)],
              [x \in {"a.flv", "b.flv"} |->
                  IF x = "a.flv" THEN ProbeFile(2, 36100, 36030)
                  ELSE ProbeFile(1, 36090, 36040)]}
      [] n = DirName(36000, "B", "", "") ->
             {[x \in {"c.flv"} |-> ProbeFile(1, 36020, 36000)]}
      [] n = DirName(ErrorDate, "A", "", "") ->
             {NoEntries, [x \in {"20250521-100200_A.flv"} |-> ProbeFile(1, 36600, 36120)]}
      [] n = DirName(85800, "A", "", "") ->
             {[x \in {"a.flv"} |-> ProbeFile(1, 86390, 85800)]}
      [] n = DirName(86420, "A", "", "") ->
             {NoEntries, [x \in {"b.flv"} |-> ProbeFile(2, 87000, 86420)]}
      [] n = DirName(36000, "A", "blrec-flv", "") ->
             {[x \in {"a.flv"} |-> ProbeFile(1, 36020, 36000)]}
      [] n = DirName(36180, "A", "blrec-flv", "") ->
             {NoEntries, [x \in {"b.flv"} |-> ProbeFile(2, 36400, 36180)]}

RECURSIVE ProcTrees(_)
ProcTrees(S) ==
    IF S = {} THEN {NoTree}
    ELSE LET n == CHOOSE x \in S : TRUE
         IN {Put(t, n, DirNode(e)) : t \in ProcTrees(S \ {n}), e \in ProcEntries(n)}

\* The user folders of the model
UserA == PlainName("UserA")
UserS == PlainName("UserS")
UserP == PlainName("UserP")
UserT == DirName(NoStamp, "UserT", "blrec-flv", "")

\* A folder with something for every processor to merge: sessions of 10:00:00
\* and 10:00:30, one of the same second with another title, one with a
\* corrupted timestamp
FullUser ==
    LET S == {DirName(36000, "A", "", ""), DirName(36030, "A", "", ""),
              DirName(36000, "B", "", ""), DirName(ErrorDate, "A", "", "")}
    IN [n \in S |->
           DirNode(CASE n = DirName(36000, "A", "", "") ->
                            [x \in {"a.flv"} |-> ProbeFile(1, 36020, 36000)]
                     [] n = DirName(36030, "A", "", "") ->
                            [x \in {"b.flv"} |-> ProbeFile(2, 36100, 36030)]
                     [] n = DirName(36000, "B", "", "") ->
                            [x \in {"c.flv"} |-> ProbeFile(1, 36020, 36000)]
                     [] OTHER ->
                            [x \in {"20250521-100200_A.flv"} |-> ProbeFile(1, 36600, 36120)])]

\* What may lie in a source next to UserA: a skip-listed folder, a social
\* folder with a user and a skip-listed folder in it, a user with tool-A sessions
ExtraNames == {PlainName("skip_test"), PlainName("NIJISANJI"), UserT}
ExtraNodes(n) ==
    CASE n = PlainName("skip_test") -> {DirNode(FullUser)}
      [] n = PlainName("NIJISANJI") ->
             {DirNode([u \in {UserS} |-> DirNode(FullUser)]),
              DirNode([u \in {UserS, PlainName("000")} |-> DirNode(FullUser)])}
      [] n = UserT ->
             {DirNode(t) : t \in ProcTrees({DirName(36000, "A", "blrec-flv", ""),
                                            DirName(36180, "A", "blrec-flv", "")})}

RECURSIVE ExtraTrees(_)
ExtraTrees(S) ==
    IF S = {} THEN {NoTree}
    ELSE LET n == CHOOSE x \in S : TRUE
         IN {Put(t, n, node) : t \in ExtraTrees(S \ {n}), node \in ExtraNodes(n)}

\* The source of the first path group: no directory, or UserA and at most
\* MaxExtras other folders
FirstSources ==
    {FileNode(1, 0)}
    \cup {DirNode(Put(x, UserA, DirNode(u))) :
             x \in UNION {ExtraTrees(X) : X \in {Y \in SUBSET ExtraNames :
                                                    Cardinality(Y) <= MaxExtras}},
             u \in UNION {ProcTrees(S) : S \in {Y \in SUBSET ProcNames :
                                                   Cardinality(Y) <= MaxSessions}}}

\* The source of the second path group: missing, no directory, or one user
SecondSources ==
    {FileNode(1, 0), DirNode([u \in {UserP} |-> DirNode(FullUser)])}

Processors == {"L2Processor", "L3Processor", "L4Processor", "L5Processor"}

InitProcess ==
    /\ pc = "ready"
    /\ \E first \in FirstSources :
          \/ tree = [g \in {path_config[1]} |-> first]
          \/ \E second \in SecondSources :
                tree = [g \in {path_config[1], path_config[2]} |->
                           IF g = path_config[1] THEN first ELSE second]
    /\ tree0 = tree /\ pre = tree /\ op = NoOp
    /\ removed_log = NoRemovals /\ conflicted = FALSE /\ recording_status = NoStatus
    /\ IdleL3 /\ IdleL4 /\ IdleL5 /\ IdleRun /\ IdleIx /\ IdleProbe /\ IdleProc

\* processor.process() from its first line to its return
Process(proc) ==
    /\ pc = "ready"
    /\ \E r \in process(proc, tree) :
          /\ tree' = r.tree
          /\ stats' = r.stats
          /\ events' = r.events
    /\ op' = [NoOp EXCEPT !.name = proc]
    /\ pc' = "returned"
    /\ UNCHANGED <<tree0, pre, removed_log, conflicted, recording_status, target, api_ok,
                   l3vars, l4vars, l5vars, runvars, ixvars, probevars>>

L2Process == Process("L2Processor")
L3Process == Process("L3Processor")
L4Process == Process("L4Processor")
L5Process == Process("L5Processor")

NextProcess ==
    \/ L2Process
    \/ L3Process
    \/ L4Process
    \/ L5Process

SpecProcess == InitProcess /\ [][NextProcess]_vars

----------------------------------------------------------------------------
(* SpecMoveOut: L1, the move out of the live recording area (move_folders) *)

\* move.move_folder(source, target): the walk of move_folder_advanced, its
\* clean-up called without a recording-status dict
move_folder(P, s, t, order) == move_folder_advanced(P, s, t, order, {}, NoStatus)

\* A user folder moved whatever the snapshot says of it
L1_process_user_folder_any_status(E, T, folder_name, status, st, order) ==
    LET P == IF folder_name \in DOMAIN T
             THEN [k \in {"source", "target"} |->
                      IF k = "source" THEN E[folder_name] ELSE T[folder_name]]
             ELSE [k \in {"source"} |-> E[folder_name]]
        r == move_folder(P, "source", "target", order)
    IN [entries |-> IF "source" \in DOMAIN r.tree
                    THEN [E EXCEPT ![folder_name] = r.tree["source"]]
                    ELSE Drop(E, folder_name),
        target |-> IF "target" \in DOMAIN r.tree
                   THEN Put(T, folder_name, r.tree["target"])
                   ELSE T,
        stats |-> Append(st, add_success)]

\* process_user_folder of move_folders on user folder_name of the entries E,
\* T being the entries of the target directory: [entries, target, stats]
L1_process_user_folder(E, T, folder_name, status, st, order) ==
    IF IsActive(status, folder_name)
    THEN [entries |-> E, target |-> T,
          stats |-> Append(st, add_skipped(folder_name, "streaming or recording"))]
    ELSE LET P == IF folder_name \in DOMAIN T
                  THEN [k \in {"source", "target"} |->
                           IF k = "source" THEN E[folder_name] ELSE T[folder_name]]
                  ELSE [k \in {"source"} |-> E[folder_name]]
             r == move_folder(P, "source", "target", order)
         IN [entries |-> IF "source" \in DOMAIN r.tree
                         THEN [E EXCEPT ![folder_name] = r.tree["source"]]
                         ELSE Drop(E, folder_name),
             target |-> IF "target" \in DOMAIN r.tree
                        THEN Put(T, folder_name, r.tree["target"])
                        ELSE T,
             stats |-> Append(st, IF r.ok THEN add_success
                                  ELSE add_failed(folder_name, "move failed"))]

\* "for folder_name in os.listdir(source_directory)" of move_folders and the
\* same loop over a social folder (social = FALSE inside one): the set of
\* [entries, target, stats] it can end with
RECURSIVE L1FolderLoop(_, _, _, _, _, _, _)
L1FolderLoop(E, T, listing, i, status, st, social) ==
    IF i > Len(listing) THEN {[entries |-> E, target |-> T, stats |-> st]}
    ELSE LET folder_name == listing[i]
         IN IF E[folder_name].kind # "dir"
            THEN L1FolderLoop(E, T, listing, i + 1, status, st, social)
            ELSE IF social /\ folder_name \in social_folders
            THEN UNION {UNION {L1FolderLoop([E EXCEPT ![folder_name].entries = r.entries],
                                            r.target, listing, i + 1, status, r.stats,
                                            social)
                               : r \in L1FolderLoop(E[folder_name].entries, T, inner, 1,
                                                    status, st, FALSE)}
                        : inner \in Perms(DOMAIN E[folder_name].entries)}
            ELSE UNION {LET r == L1_process_user_folder(E, T, folder_name, status, st,
                                                        order)
                        IN L1FolderLoop(r.entries, r.target, listing, i + 1, status,
                                        r.stats, social)
                        : order \in Perms(DOMAIN E[folder_name].entries)}

\* A run that goes on with an empty status dict when the lookup fails
move_folders_ignoring_failure(S, T, ok, status) ==
    LET known == IF ok THEN status ELSE NoStatus
    IN UNION {{[tree |-> delete_empty_folders(
                             [S EXCEPT ![path_config[1]].entries = r.entries],
                             path_config[1], known),
                target |-> r.target, stats |-> r.stats]
               : r \in L1FolderLoop(S[path_config[1]].entries, T, listing, 1, known,
                                    <<>>, TRUE)}
              : listing \in Perms(DOMAIN S[path_config[1]].entries)}

\* move_folders (enable_move = True) on one path group: S holds its source
\* directory, T the entries of its target directory; ok tells whether
\* fetch_recording_status returns the dict `status` or raises
move_folders(S, T, ok, status) ==
    IF ~ok THEN {[tree |-> S, target |-> T, stats |-> <<>>]}
    ELSE UNION {{[tree |-> delete_empty_folders(
                               [S EXCEPT ![path_config[1]].entries = r.entries],
                               path_config[1], status),
                  target |-> r.target, stats |-> r.stats]
                 : r \in L1FolderLoop(S[path_config[1]].entries, T, listing, 1, status,
                                      <<>>, TRUE)}
                : listing \in Perms(DOMAIN S[path_config[1]].entries)}

\* What a user folder of the live area holds
LiveUsers ==
    {DirNode(NoEntries),
     DirNode([n \in {DirName(36000, "A", "", "")} |->
                 DirNode([x \in {"a.flv"} |-> FileNode(1, 36020)])]),
     DirNode([n \in {DirName(36000, "A", "", ""), DirName(36030, "A", "", "")} |->
                 IF n = DirName(36000, "A", "", "")
                 THEN DirNode([x \in {"a.flv"} |-> FileNode(1, 36020)])
                 ELSE DirNode(NoEntries)])}

\* The source directory: UserA, and perhaps UserP or a social folder with UserS
LiveSources ==
    {[n \in {UserA} |-> a] : a \in LiveUsers}
    \cup {[n \in {UserA, UserP} |-> IF n = UserA THEN a ELSE p]
          : a \in LiveUsers, p \in LiveUsers}
    \cup {[n \in {UserA, PlainName("NIJISANJI")} |->
              IF n = UserA THEN a ELSE DirNode([u \in {UserS} |-> s])]
          : a \in LiveUsers, s \in LiveUsers}

\* The target directory: empty, or holding UserA from an earlier run
LiveTargets ==
    {NoTree}
    \cup {[n \in {UserA} |->
              DirNode([d \in {DirName(36000, "A", "", "")} |->
                          DirNode([x \in {"a.flv"} |-> FileNode(h, 36020)])])]
          : h \in 1..MaxHash}

LiveStatusValues == {[recording |-> r, streaming |-> s] : r, s \in BOOLEAN}
LiveStatusDicts ==
    UNION {[dom -> LiveStatusValues] : dom \in SUBSET {UserA, UserS}}

InitMoveOut ==
    /\ pc = "ready"
    /\ tree \in {[g \in {path_config[1]} |-> DirNode(e)] : e \in LiveSources}
    /\ target \in LiveTargets
    /\ recording_status \in LiveStatusDicts
    /\ api_ok \in BOOLEAN
    /\ stats = <<>> /\ events = <<>>
    /\ tree0 = tree /\ pre = target /\ op = NoOp
    /\ removed_log = NoRemovals /\ conflicted = FALSE
    /\ IdleL3 /\ IdleL4 /\ IdleL5 /\ IdleRun /\ IdleIx /\ IdleProbe

\* move_folders(folder_path_id, social_folder_names, enable_move) from its
\* first line to its return
MoveFolders ==
    /\ pc = "ready"
    /\ \E r \in move_folders(tree, target, api_ok, recording_status) :
          /\ tree' = r.tree
          /\ target' = r.target
          /\ stats' = r.stats
    /\ op' = [NoOp EXCEPT !.name = "L1"]
    /\ pc' = "returned"
    /\ UNCHANGED <<tree0, pre, removed_log, conflicted, recording_status, events, api_ok,
                   l3vars, l4vars, l5vars, runvars, ixvars, probevars>>

NextMoveOut == MoveFolders

SpecMoveOut == InitMoveOut /\ [][NextMoveOut]_vars

\* C21: when the recording-status lookup fails the run moves, merges and
\* prunes nothing, in the live area or in the target, and returns empty
\* statistics
C21_LookupFailureSkipsStage ==
    (pc = "returned" /\ ~api_ok) =>
        /\ tree = tree0
        /\ target = pre
        /\ stats = <<>>

\* C21 witness: the lookup failed for a live area holding an idle user with
\* a recording and an empty session folder; nothing moved
C21_Witness ==
    /\ pc = "returned" /\ ~api_ok
    /\ tree = tree0 /\ stats = <<>> /\ target = NoTree
    /\ Cardinality(DOMAIN tree[path_config[1]].entries[UserA].entries) = 2
    /\ recording_status = NoStatus

----------------------------------------------------------------------------
(* SpecFinal: L9, the move of completed user folders to the archive target *)

\* A path is the sequence of the names below the root; E holds the entries
\* of the root
RECURSIVE PathExists(_, _)
PathExists(E, path) ==
    IF path = <<>> THEN TRUE
    ELSE /\ path[1] \in DOMAIN E
         /\ (Len(path) > 1 => E[path[1]].kind = "dir")
         /\ PathExists(E[path[1]].entries, Tail(path))

RECURSIVE NodeAt(_, _)
NodeAt(E, path) ==
    IF Len(path) = 1 THEN E[path[1]] ELSE NodeAt(E[path[1]].entries, Tail(path))

\* the node put at path, missing parents made on the way (shutil.move,
\* os.makedirs)
RECURSIVE PutAt(_, _, _)
PutAt(E, path, node) ==
    IF Len(path) = 1 THEN Put(E, path[1], node)
    ELSE LET below == IF path[1] \in DOMAIN E THEN E[path[1]].entries ELSE NoEntries
         IN Put(E, path[1], DirNode(PutAt(below, Tail(path), node)))

RECURSIVE DropAt(_, _)
DropAt(E, path) ==
    IF Len(path) = 1 THEN Drop(E, path[1])
    ELSE [E EXCEPT ![path[1]].entries = DropAt(@, Tail(path))]

\* str.startswith on two names: "UserAx" begins with "UserA"
NameStartsWith(a, b) == a = b \/ <<a.title, b.title>> \in {<<"UserAx", "UserA">>}

\* os.path.abspath(t).startswith(os.path.abspath(s)): a comparison of the
\* two strings, not of the path components
PathStartsWith(t, s) ==
    /\ Len(t) >= Len(s)
    /\ \A i \in 1..(Len(s) - 1) : t[i] = s[i]
    /\ NameStartsWith(t[Len(s)], s[Len(s)])

\* [f for f in os.listdir(user_folder_path) if os.path.isdir(...)]
subfolders(node) == {f \in DOMAIN node.entries : node.entries[f].kind = "dir"}

\* move_folder(user_folder_path, target_folder_path) on the tree below the root
move_folder_at(E, source, dest, order) ==
    LET P == IF PathExists(E, dest)
             THEN [k \in {"source", "target"} |->
                      IF k = "source" THEN NodeAt(E, source) ELSE NodeAt(E, dest)]
             ELSE [k \in {"source"} |-> NodeAt(E, source)]
        r == move_folder(P, "source", "target", order)
        left == IF "source" \in DOMAIN r.tree
                THEN PutAt(E, source, r.tree["source"])
                ELSE DropAt(E, source)
    IN [tree |-> IF "target" \in DOMAIN r.tree THEN PutAt(left, dest, r.tree["target"])
                 ELSE left,
        ok |-> r.ok]

\* The move record of the history: what the check saw when it let a move go
MoveStep(source, dest, count) ==
    Step("execute", source, [target |-> dest, subfolders |-> count])

\* A run value of L9: the tree, the statistics and the moves made
FinalRun(E, st, steps) == [tree |-> E, stats |-> st, events |-> steps]

\* The move made whatever the number of sub-folders
L9_process_user_folder_any_count(run, user_folder_path, target_path) ==
    LET folder_name == user_folder_path[Len(user_folder_path)]
        target_folder_path == Append(target_path, folder_name)
        node == NodeAt(run.tree, user_folder_path)
    IN IF user_folder_path = target_folder_path
       THEN {FinalRun(run.tree, Append(run.stats, add_skipped(folder_name, "same path")),
                      run.events)}
       ELSE IF PathStartsWith(target_folder_path, user_folder_path)
       THEN {FinalRun(run.tree, Append(run.stats, add_skipped(folder_name, "target inside")),
                      run.events)}
       ELSE {LET r == move_folder_at(run.tree, user_folder_path, target_folder_path, order)
             IN FinalRun(r.tree,
                         Append(run.stats, IF r.ok THEN add_success
                                           ELSE add_failed(folder_name, "move failed")),
                         Append(run.events,
                                MoveStep(user_folder_path, target_folder_path,
                                         Cardinality(subfolders(node))))) 
             : order \in Perms(DOMAIN node.entries)}

\* L9_Main.process_user_folder(user_folder_path, target_path): the runs it
\* can end with
L9_process_user_folder(run, user_folder_path, target_path) ==
    LET folder_name == user_folder_path[Len(user_folder_path)]
        target_folder_path == Append(target_path, folder_name)
        node == NodeAt(run.tree, user_folder_path)
    IN IF user_folder_path = target_folder_path
       THEN {FinalRun(run.tree, Append(run.stats, add_skipped(folder_name, "same path")),
                      run.events)}
       ELSE IF PathStartsWith(target_folder_path, user_folder_path)
       THEN {FinalRun(run.tree, Append(run.stats, add_skipped(folder_name, "target inside")),
                      run.events)}
       ELSE IF Cardinality(subfolders(node)) = 1
       THEN {LET r == move_folder_at(run.tree, user_folder_path, target_folder_path, order)
             IN FinalRun(r.tree,
                         Append(run.stats, IF r.ok THEN add_success
                                           ELSE add_failed(folder_name, "move failed")),
                         Append(run.events,
                                MoveStep(user_folder_path, target_folder_path,
                                         Cardinality(subfolders(node)))))
             : order \in Perms(DOMAIN node.entries)}
       ELSE {FinalRun(run.tree, Append(run.stats, add_skipped(folder_name, "sub-folder count")),
                      run.events)}

\* "for user_folder_name in os.listdir(social_folder_path)" of
\* L9_Main.process_social_folder
RECURSIVE L9SocialLoop(_, _, _, _, _)
L9SocialLoop(run, social_folder_path, target_social, listing, i) ==
    IF i > Len(listing) THEN {run}
    ELSE LET user_folder_path == Append(social_folder_path, listing[i])
             target_user == Append(target_social, listing[i])
             next(r) == L9SocialLoop(r, social_folder_path, target_social, listing, i + 1)
         IN IF ~PathExists(run.tree, user_folder_path)
               \/ NodeAt(run.tree, user_folder_path).kind # "dir"
            THEN next(run)
            ELSE IF listing[i] \in skip_folders
            THEN next(FinalRun(run.tree,
                               Append(run.stats, add_skipped(listing[i], "skip list")),
                               run.events))
            ELSE IF user_folder_path = target_user
            THEN next(FinalRun(run.tree,
                               Append(run.stats, add_skipped(listing[i], "same path")),
                               run.events))
            ELSE IF PathStartsWith(target_user, user_folder_path)
            THEN next(FinalRun(run.tree,
                               Append(run.stats, add_skipped(listing[i], "target inside")),
                               run.events))
            ELSE UNION {next(r) : r \in L9_process_user_folder(run, user_folder_path,
                                                               target_social)}

\* L9_Main.process_social_folder(social_folder_path, target_path)
L9_process_social_folder(run, social_folder_path, target_path) ==
    LET target_social == Append(target_path, social_folder_path[Len(social_folder_path)])
        made == IF PathExists(run.tree, target_social) THEN run.tree
                ELSE PutAt(run.tree, target_social, DirNode(NoEntries))
        start == FinalRun(made, run.stats, run.events)
        ends == UNION {L9SocialLoop(start, social_folder_path, target_social, listing, 1)
                       : listing \in Perms(DOMAIN NodeAt(made, social_folder_path).entries)}
    IN {IF NodeAt(r.tree, social_folder_path).entries = NoEntries
        THEN FinalRun(DropAt(r.tree, social_folder_path), r.stats, r.events)
        ELSE r
        : r \in ends}

\* "for folder_name in os.listdir(source_path)" of L9_Main.process
RECURSIVE L9FolderLoop(_, _, _, _, _)
L9FolderLoop(run, source_path, target_path, listing, i) ==
    IF i > Len(listing) THEN {run}
    ELSE LET folder_path == Append(source_path, listing[i])
             next(r) == L9FolderLoop(r, source_path, target_path, listing, i + 1)
         IN IF ~PathExists(run.tree, folder_path)
               \/ NodeAt(run.tree, folder_path).kind # "dir"
            THEN next(run)
            ELSE IF listing[i] \in skip_folders
            THEN next(FinalRun(run.tree,
                               Append(run.stats, add_skipped(listing[i], "skip list")),
                               run.events))
            ELSE IF listing[i] \in social_folders
            THEN UNION {next(r) : r \in L9_process_social_folder(run, folder_path,
                                                                 target_path)}
            ELSE UNION {next(r) : r \in L9_process_user_folder(run, folder_path,
                                                               target_path)}

\* L9_Main.process with one path group (source_path, target_path), the move
\* enabled
L9_process(E, source_path, target_path) ==
    IF ~PathExists(E, source_path) THEN {FinalRun(E, <<>>, <<>>)}
    ELSE UNION {L9FolderLoop(FinalRun(E, <<>>, <<>>), source_path, target_path, listing, 1)
                : listing \in Perms(DOMAIN NodeAt(E, source_path).entries)}

\* The path group of the run: the source, and the target paths tried: another
\* tree, the source itself, a folder inside UserA, a folder next to UserA whose
\* name begins with "UserA"
final_source == <<PlainName("src")>>
FinalTargets ==
    {<<PlainName("dst")>>, final_source,
     <<PlainName("src"), UserA, PlainName("in")>>,
     <<PlainName("src"), PlainName("UserAx")>>}

FinalSession(h) == DirNode([x \in {PlainName("a.flv")} |-> FileNode(h, 36020)])

\* What a user folder of the source holds: no, one or two session folders,
\* perhaps a file next to them
FinalUsers ==
    {DirNode(NoEntries),
     DirNode([n \in {DirName(36000, "A", "", "")} |-> FinalSession(1)]),
     DirNode([n \in {DirName(36000, "A", "", ""), PlainName("cover.jpg")} |->
                 IF n = PlainName("cover.jpg") THEN FileNode(2, 36020)
                 ELSE FinalSession(1)]),
     DirNode([n \in {DirName(36000, "A", "", ""), DirName(90000, "A", "", "")} |->
                 FinalSession(1)])}
FinalOthers ==
    {DirNode([n \in {DirName(36000, "A", "", "")} |-> FinalSession(1)]),
     DirNode([n \in {DirName(36000, "A", "", ""), DirName(90000, "A", "", "")} |->
                 FinalSession(1)])}

\* The folders that may stand next to UserA in the source
FinalExtras ==
    {[n \in {UserP} |-> p] : p \in FinalOthers}
    \cup {[n \in {PlainName("NIJISANJI")} |-> DirNode([u \in {UserS} |-> s])]
          : s \in FinalOthers}
    \cup {[n \in {PlainName("000")} |-> p] : p \in FinalOthers}
    \cup {[n \in {UserP, PlainName("NIJISANJI")} |->
              IF n = UserP THEN p ELSE DirNode([u \in {UserS} |-> s])]
          : p \in FinalOthers, s \in FinalOthers}
    \cup {NoEntries}

\* The source for target path t: UserA holds the target when t lies inside
\* it, and the folder "UserAx" exists when t is that folder
FinalSources(t) ==
    {LET a == IF Len(t) = 3 THEN DirNode(Put(u.entries, t[3], DirNode(NoEntries))) ELSE u
         base == Put(x, UserA, a)
     IN IF Len(t) = 2 THEN Put(base, t[2], DirNode(NoEntries)) ELSE base
     : u \in FinalUsers, x \in FinalExtras}

\* The archive: empty, or holding UserA from an earlier run
FinalArchives ==
    {NoEntries}
    \cup {[n \in {UserA} |-> DirNode([d \in {DirName(36000, "A", "", "")} |->
                                        FinalSession(h)])]
          : h \in 1..MaxHash}

InitFinal ==
    /\ pc = "ready"
    /\ target \in FinalTargets
    /\ \E s \in FinalSources(target), d \in FinalArchives :
          tree = [n \in {PlainName("src"), PlainName("dst")} |->
                     IF n = PlainName("src") THEN DirNode(s) ELSE DirNode(d)]
    /\ tree0 = tree /\ pre = NoTree /\ op = NoOp
    /\ removed_log = NoRemovals /\ conflicted = FALSE /\ recording_status = NoStatus
    /\ stats = <<>> /\ events = <<>> /\ api_ok = TRUE
    /\ IdleL3 /\ IdleL4 /\ IdleL5 /\ IdleRun /\ IdleIx /\ IdleProbe

\* L9_Main.process() from its first line to its return
FinalMove ==
    /\ pc = "ready"
    /\ \E r \in L9_process(tree, final_source, target) :
          /\ tree' = r.tree
          /\ stats' = r.stats
          /\ events' = r.events
    /\ op' = [NoOp EXCEPT !.name = "L9"]
    /\ pc' = "returned"
    /\ UNCHANGED <<tree0, pre, removed_log, conflicted, recording_status, target, api_ok,
                   l3vars, l4vars, l5vars, runvars, ixvars, probevars>>

NextFinal == FinalMove

SpecFinal == InitFinal /\ [][NextFinal]_vars

----------------------------------------------------------------------------
(* SpecWalk: RECHEME.merge_folders on a folder with folders at several depths *)

\* os.walk(folder_path): the directories below the entries E, as paths
RECURSIVE WalkDirs(_, _)
WalkDirs(E, prefix) ==
    UNION {{Append(prefix, n)} \cup WalkDirs(E[n].entries, Append(prefix, n))
           : n \in {x \in DOMAIN E : E[x].kind = "dir"}}

\* "any(substring in folder for substring in skip_keys)" on a path
PathInSkipKeys(path) == \E i \in 1..Len(path) : InSkipKeys(path[i])

\* RECHEME._scan_and_group_by_time with os.walk: time_info -> the paths of the
\* directories at any depth whose name carries that stamp
walk_and_group_by_time(E) ==
    LET dated == {p \in WalkDirs(E, <<>>) :
                     /\ ~InSkipKeys(p[Len(p)])
                     /\ parse_folder_name(p[Len(p)]) # NoInfo}
        key(p) == parse_folder_name(p[Len(p)]).date
    IN [k \in {key(p) : p \in dated} |-> {p \in dated : key(p) = k}]

\* The str order of two names: a stamp begins with a digit and sorts before
\* the letters of "UserB" and "misc"
NameLess(a, b) ==
    LET dated(n) == n.stamp \notin {NoStamp, BadStamp}
        plain(n) == CASE n.title = "UserB" -> 1 [] n.title = "misc" -> 2 [] OTHER -> 3
    IN IF dated(a) /\ dated(b)
       THEN a.stamp < b.stamp \/ (a.stamp = b.stamp /\ NameKey(a) < NameKey(b))
       ELSE IF dated(a) # dated(b) THEN dated(a)
       ELSE plain(a) < plain(b)

\* The str order of two paths
RECURSIVE PathLess(_, _)
PathLess(p, q) ==
    IF p = <<>> THEN q # <<>>
    ELSE IF q = <<>> THEN FALSE
    ELSE IF p[1] = q[1] THEN PathLess(Tail(p), Tail(q))
    ELSE NameLess(p[1], q[1])

\* RECHEME._select_main_folder on paths: sorted(subfolder_list)[0]
select_main_path(paths) == CHOOSE m \in paths : \A x \in paths \ {m} : PathLess(m, x)

\* MergeOperations.merge_folder_contents(source, target) on two paths neither
\* of which lies in the other
merge_folder_contents_at(E, source, dest, order) ==
    LET P == [k \in {"source", "target"} |->
                 IF k = "source" THEN NodeAt(E, source) ELSE NodeAt(E, dest)]
        r == merge_folder_contents(P, "source", "target", order)
        left == IF "source" \in DOMAIN r.tree
                THEN PutAt(E, source, r.tree["source"])
                ELSE DropAt(E, source)
    IN [tree |-> PutAt(left, dest, r.tree["target"]), ok |-> r.ok]

\* MergeOperations.merge_folder_list_to_target on paths: the trees and merge
\* counts it can end with
RECURSIVE MergeListLoopAt(_, _, _, _, _)
MergeListLoopAt(E, folders, dest, i, merge_count) ==
    IF i > Len(folders) THEN {[tree |-> E, count |-> merge_count]}
    ELSE IF folders[i] = dest THEN MergeListLoopAt(E, folders, dest, i + 1, merge_count)
    ELSE IF ~PathExists(E, folders[i]) \/ ~PathExists(E, dest)
    THEN MergeListLoopAt(E, folders, dest, i + 1, merge_count)
    ELSE UNION {LET r == merge_folder_contents_at(E, folders[i], dest, order)
                IN MergeListLoopAt(r.tree, folders, dest, i + 1,
                                   IF r.ok THEN merge_count + 1 ELSE merge_count)
                : order \in Perms(DOMAIN NodeAt(E, folders[i]).entries)}

\* A run value of RECHEME.merge_folders
WalkRun(E, calls, outcomes) == [tree |-> E, calls |-> calls, outcomes |-> outcomes]

\* "for time_info, subfolder_list in mergeable_groups" with
\* RECHEME._merge_subfolders inside
RECURSIVE WalkGroupLoop(_, _, _, _)
WalkGroupLoop(run, time_groups, keys, i) ==
    IF i > Len(keys) THEN {run}
    ELSE LET subfolder_list == time_groups[keys[i]]
             main_folder == select_main_path(subfolder_list)
             to_merge == {f \in subfolder_list :
                             /\ f # main_folder
                             /\ ~PathInSkipKeys(f)
                             /\ PathExists(run.tree, f)}
             outcomes == Append(run.outcomes,
                                add_success_with_name(DirName(keys[i], "time group", "", ""),
                                                      0, 0))
         IN IF to_merge = {}
            THEN WalkGroupLoop(WalkRun(run.tree, run.calls, outcomes), time_groups, keys,
                               i + 1)
            ELSE UNION {UNION {WalkGroupLoop(
                                   WalkRun(r.tree,
                                           Append(run.calls,
                                                  [target |-> main_folder, folders |-> folders,
                                                   merged |-> r.count]),
                                           outcomes),
                                   time_groups, keys, i + 1)
                               : r \in MergeListLoopAt(run.tree, folders, main_folder, 1, 0)}
                        : folders \in Perms(to_merge)}

\* RECHEME.merge_folders(folder_path, skip_keys), E being the entries of
\* folder_path
RECHEME_merge_folders_walk(E) ==
    LET time_groups == walk_and_group_by_time(E)
        mergeable == {k \in DOMAIN time_groups : Cardinality(time_groups[k]) > 1}
    IN UNION {WalkGroupLoop(WalkRun(E, <<>>, <<>>), time_groups, keys, 1)
              : keys \in Perms(mergeable)}

\* The folder handed to RECHEME: session folders of 10:00:00 (titles A, B) and
\* 10:05:00 directly in it, and the folders "misc" and "UserB", each holding
\* one session folder
WalkSessions == {DirName(36000, "A", "", ""), DirName(36000, "B", "", ""),
                 DirName(36300, "A", "", "")}
WalkHolders == {PlainName("misc"), PlainName("UserB")}
WalkTrees ==
    {[n \in top \cup DOMAIN held |->
         IF n \in top
         THEN DirNode([x \in {"a.flv"} |-> FileNode(hashes[n], 36020)])
         ELSE DirNode([s \in {held[n]} |-> DirNode([x \in {"b.flv"} |-> FileNode(1, 36020)])])]
     : top \in SUBSET WalkSessions,
       hashes \in [WalkSessions -> 1..MaxHash],
       held \in UNION {[hs -> WalkSessions] : hs \in SUBSET WalkHolders}}

InitWalk ==
    /\ pc = "ready"
    /\ tree \in WalkTrees
    /\ tree0 = tree /\ pre = tree /\ op = NoOp
    /\ removed_log = NoRemovals /\ conflicted = FALSE /\ recording_status = NoStatus
    /\ IdleL3 /\ IdleL4 /\ IdleL5 /\ IdleRun /\ IdleIx /\ IdleProbe /\ IdleProc

\* RECHEME.merge_folders from its first line to its return
RechemeMergeFolders ==
    /\ pc = "ready"
    /\ \E r \in RECHEME_merge_folders_walk(tree) :
          /\ tree' = r.tree
          /\ merge_calls' = r.calls
          /\ stats' = r.outcomes
    /\ op' = [NoOp EXCEPT !.name = "RECHEME"]
    /\ pc' = "returned"
    /\ UNCHANGED <<tree0, pre, removed_log, conflicted, recording_status, groups,
                   skipped_folders, error_folders, events, target, api_ok,
                   l3vars, l4vars, l5vars, runvars, probevars>>

NextWalk == RechemeMergeFolders

SpecWalk == InitWalk /\ [][NextWalk]_vars

----------------------------------------------------------------------------
(* SpecStats: the Statistics class, two objects and their methods *)

\* The reasons a skip is filed under; add_success_with_name files its names
\* under the key of the successes
SuccessKey == "processed"
SkipReasons == {"skip list", "nothing to merge"}
NoReasons == [r \in {} |-> <<>>]

\* Statistics.__init__
Statistics_init ==
    [total |-> 0, success |-> 0, failed |-> 0, skipped |-> 0, failed_names |-> <<>>,
     skip_reasons |-> NoReasons]

\* skip_reasons[reason].append(name), the list made when the key is new
FileUnder(skip_reasons, reason, names) ==
    Put(skip_reasons, reason,
        (IF reason \in DOMAIN skip_reasons THEN skip_reasons[reason] ELSE <<>>) \o names)

\* Statistics.add_success
Statistics_add_success(o) ==
    [o EXCEPT !.success = @ + 1, !.total = @ + 1]

\* Statistics.add_failed
Statistics_add_failed(o, name, reason) ==
    [o EXCEPT !.failed = @ + 1, !.total = @ + 1,
              !.failed_names = Append(@, [name |-> name, reason |-> reason])]

\* Statistics.add_skipped
Statistics_add_skipped(o, name, reason) ==
    [o EXCEPT !.skipped = @ + 1, !.total = @ + 1,
              !.skip_reasons = FileUnder(@, reason, <<name>>)]

\* Statistics.add_success_with_name
Statistics_add_success_with_name(o, name) ==
    [o EXCEPT !.success = @ + 1, !.total = @ + 1,
              !.skip_reasons = FileUnder(@, SuccessKey, <<name>>)]

\* "for reason, names in other_stats.skip_reasons.items()" of merge_stats
RECURSIVE MergeReasons(_, _, _)
MergeReasons(skip_reasons, other, todo) ==
    IF todo = {} THEN skip_reasons
    ELSE LET reason == CHOOSE r \in todo : TRUE
         IN MergeReasons(FileUnder(skip_reasons, reason, other[reason]), other,
                         todo \ {reason})

\* A merge of the counters alone
Statistics_merge_counters(o, other_stats) ==
    [o EXCEPT !.total = @ + other_stats.total,
              !.success = @ + other_stats.success,
              !.failed = @ + other_stats.failed,
              !.skipped = @ + other_stats.skipped]

\* Statistics.merge_stats
Statistics_merge_stats(o, other_stats) ==
    [o EXCEPT !.total = @ + other_stats.total,
              !.success = @ + other_stats.success,
              !.failed = @ + other_stats.failed,
              !.skipped = @ + other_stats.skipped,
              !.failed_names = @ \o other_stats.failed_names,
              !.skip_reasons = MergeReasons(@, other_stats.skip_reasons,
                                            DOMAIN other_stats.skip_reasons)]

\* Statistics.reset
Statistics_reset(o) == Statistics_init

InitStats ==
    /\ pc = "stats"
    /\ stats = <<Statistics_init, Statistics_init>>
    /\ op = NoOp
    /\ events = <<>> /\ target = NoTree /\ api_ok = TRUE
    /\ IdleL3 /\ IdleL4 /\ IdleL5 /\ IdleRun /\ IdleIx /\ IdleProbe
    /\ tree = NoTree /\ tree0 = NoTree /\ pre = NoTree
    /\ removed_log = NoRemovals /\ conflicted = FALSE /\ recording_status = NoStatus

\* object i becomes o by the method called `name`
StatsStep(i, o, name) ==
    /\ pc = "stats"
    /\ stats' = [stats EXCEPT ![i] = o]
    /\ op' = [NoOp EXCEPT !.name = name]
    /\ UNCHANGED <<pc, tree, tree0, pre, removed_log, conflicted, recording_status, events,
                   target, api_ok, l3vars, l4vars, l5vars, runvars, ixvars, probevars>>

AddSuccess(i) ==
    /\ stats[i].total < MaxCount
    /\ StatsStep(i, Statistics_add_success(stats[i]), "add_success")

AddFailed(i) ==
    /\ stats[i].total < MaxCount
    /\ StatsStep(i, Statistics_add_failed(stats[i], UserA, "error"), "add_failed")

AddSkipped(i) ==
    /\ stats[i].total < MaxCount
    /\ \E reason \in SkipReasons :
          StatsStep(i, Statistics_add_skipped(stats[i], UserA, reason), "add_skipped")

AddSuccessWithName(i) ==
    /\ stats[i].total < MaxCount
    /\ StatsStep(i, Statistics_add_success_with_name(stats[i], UserA),
                 "add_success_with_name")

\* stats[i].merge_stats(stats[j]); j may be i
MergeStats(i, j) ==
    /\ stats[i].total + stats[j].total <= MaxCount
    /\ StatsStep(i, Statistics_merge_stats(stats[i], stats[j]), "merge_stats")

Reset(i) == StatsStep(i, Statistics_reset(stats[i]), "reset")

NextStats ==
    \E i \in 1..2 :
        \/ AddSuccess(i)
        \/ AddFailed(i)
        \/ AddSkipped(i)
        \/ AddSuccessWithName(i)
        \/ \E j \in 1..2 : MergeStats(i, j)
        \/ Reset(i)

SpecStats == InitStats /\ [][NextStats]_vars

----------------------------------------------------------------------------
(* Claims about the same-day sliding-window merge (SpecChain) *)

\* Indices already consumed when anchor i starts: members of a chain whose
\* target comes before i.
ConsumedBefore(i) ==
    {j \in 1..Len(folder_list) :
        \E n \in 1..Len(merge_chains) :
            /\ merge_chains[n].target < i
            /\ \E m \in 1..Len(merge_chains[n].sources) : merge_chains[n].sources[m] = j}

\* Sources of the chain whose target is i (empty when i anchors no chain).
JoinedTo(i) ==
    {j \in 1..Len(folder_list) :
        \E n \in 1..Len(merge_chains) :
            /\ merge_chains[n].target = i
            /\ \E m \in 1..Len(merge_chains[n].sources) : merge_chains[n].sources[m] = j}

IsAnchor(i) == flv_times[i] # NoTime /\ i \notin ConsumedBefore(i)

GapTo(i, j) == IF flv_times[i] >= folder_list[j].date
               THEN flv_times[i] - folder_list[j].date
               ELSE folder_list[j].date - flv_times[i]

\* C1: for an anchor with latest media modification time M, a later unconsumed
\* member j joins the anchor's chain exactly when every unconsumed member from
\* the anchor up to and including j has |M - nominal date| <= 60 s (M fixed,
\* boundary inclusive); so the scan stops at the first unconsumed member whose
\* gap exceeds the interval and nothing after it joins.
C1_ChainBreakIsStrict ==
    pc = "done" =>
        \A i \in 1..Len(folder_list) :
            IsAnchor(i) =>
                \A j \in (i + 1)..Len(folder_list) :
                    j \notin ConsumedBefore(i) =>
                        (j \in JoinedTo(i) <=>
                            \A k \in (i + 1)..j :
                                k \notin ConsumedBefore(i) => GapTo(i, k) <= 60)

\* C1 witness: one anchor leaves out a member that is within the interval
\* because an earlier member exceeded it, and some member joins a chain with a
\* gap of exactly 60 s.
C1_Witness ==
    /\ pc = "done"
    /\ \E i \in 1..Len(folder_list) : \E j, k \in 1..Len(folder_list) :
          /\ IsAnchor(i) /\ i < j /\ j < k
          /\ GapTo(i, j) > 60 /\ GapTo(i, k) <= 60
          /\ k \notin JoinedTo(i)
    /\ \E i \in 1..Len(folder_list) : \E j \in JoinedTo(i) : GapTo(i, j) = 60

----------------------------------------------------------------------------
(* Claims about the cross-midnight merge (SpecCrossDay) *)

PreFilterPasses(i) ==
    /\ DateOf(cd_list[i + 1].date) = DateOf(cd_list[i].date) + 1
    /\ HourOf(cd_list[i].date) >= 20
    /\ HourOf(cd_list[i + 1].date) <= 4

HasMediaFacts(i) ==
    /\ cd_media[i].mod # NoTime
    /\ cd_media[i + 1].info
    /\ cd_media[i + 1].ctime # NoTime

PairEmitted(i) ==
    \E n \in 1..Len(cross_day_pairs) :
        cross_day_pairs[n] = [target |-> i, source |-> i + 1]

\* (midnight_of_next_day - latestModTime) + (createTime - midnight_of_next_day),
\* midnight_of_next_day being the midnight that ends the earlier folder's nominal day
SpecInterval(i) ==
    LET midnight == (DateOf(cd_list[i].date) + 1) * DaySeconds
    IN (midnight - cd_media[i].mod) + (cd_media[i + 1].ctime - midnight)

\* C2 as stated: for every value of the two media times, an adjacent pair that
\* passed the pre-filter and has its media facts is emitted exactly when the
\* cross-day interval is <= the threshold.
C2_EmittedIffIntervalWithinThreshold ==
    pc = "done" =>
        \A i \in 1..(Len(cd_list) - 1) :
            (PreFilterPasses(i) /\ HasMediaFacts(i)) =>
                (PairEmitted(i) <=> SpecInterval(i) <= merge_interval)

\* C2 amended: the pair is emitted (target = earlier, source = later) exactly
\* when the later folder's first creation time falls on the calendar day after
\* the earlier folder's latest modification time and the interval is <= the
\* threshold.
C2_EmittedIffNextDayAndWithinThreshold ==
    pc = "done" =>
        \A i \in 1..(Len(cd_list) - 1) :
            (PreFilterPasses(i) /\ HasMediaFacts(i)) =>
                (PairEmitted(i) <=>
                    /\ cd_media[i + 1].ctime \div 86400 = (cd_media[i].mod \div 86400) + 1
                    /\ SpecInterval(i) <= merge_interval)

\* C2 witness: modification 23:58:25 on day 0 and creation 00:22:58 on day 1
\* (1473 s): emitted with threshold 1800 s.
C2_Witness ==
    /\ pc = "done"
    /\ \E i \in 1..(Len(cd_list) - 1) :
          /\ PreFilterPasses(i) /\ HasMediaFacts(i)
          /\ cd_media[i].mod = 86305 /\ cd_media[i + 1].ctime = 87778
          /\ SpecInterval(i) = 1473
          /\ merge_interval = 1800
          /\ PairEmitted(i)

\* The same pair is rejected with threshold 1200 s.
C2_WitnessRejected ==
    /\ pc = "done"
    /\ \E i \in 1..(Len(cd_list) - 1) :
          /\ PreFilterPasses(i) /\ HasMediaFacts(i)
          /\ cd_media[i].mod = 86305 /\ cd_media[i + 1].ctime = 87778
          /\ merge_interval = 1200
          /\ ~PairEmitted(i)

----------------------------------------------------------------------------
(* Claims about the corrupted-timestamp recovery (SpecErrorTime) *)

RecoveredDay == error_folder.date \div 86400
RecoveredHour == (error_folder.date % 86400) \div 3600
ExactKey == <<RecoveredDay, error_folder.title>>
PrevKey == <<RecoveredDay - 1, error_folder.title>>

\* C3: the corrupted record is matched to normal[(day, title)] if that entry
\* exists; otherwise to normal[(day - 1, title)] only when that entry exists
\* and the recovered hour is within 0..6; otherwise there is no instruction.
\* On a match target = the normal directory, source = the corrupted directory.
C3_RecoveryMatch ==
    pc = "done" =>
        /\ ExactKey \in DOMAIN normal_folders =>
              instruction = [target |-> normal_folders[ExactKey].path,
                             source |-> error_folder.path]
        /\ (ExactKey \notin DOMAIN normal_folders /\ PrevKey \in DOMAIN normal_folders
                /\ RecoveredHour \in 0..6) =>
              instruction = [target |-> normal_folders[PrevKey].path,
                             source |-> error_folder.path]
        /\ (ExactKey \notin DOMAIN normal_folders
                /\ ~(PrevKey \in DOMAIN normal_folders /\ RecoveredHour \in 0..6)) =>
              instruction = NoInstruction
        /\ instruction.target.date # ErrorDate

\* C3 witness: recovered hour 19 with only a previous-day normal directory of
\* the same title: no instruction, the corrupted directory is left alone.
C3_Witness ==
    /\ pc = "done"
    /\ RecoveredHour = 19
    /\ ExactKey \notin DOMAIN normal_folders
    /\ PrevKey \in DOMAIN normal_folders
    /\ instruction = NoInstruction

\* The previous-day fallback is taken at the upper end of the window (06:59:59).
C3_WitnessFallback ==
    /\ pc = "done"
    /\ RecoveredHour = 6
    /\ ExactKey \notin DOMAIN normal_folders
    /\ PrevKey \in DOMAIN normal_folders
    /\ instruction.target = normal_folders[PrevKey].path
    /\ instruction.source = error_folder.path

----------------------------------------------------------------------------
(* Claims about the merge operations (SpecMerge) *)

MergeOps == {"merge_folder_contents", "merge_folder_list_to_target", "move_folder_advanced"}

\* the number of files of content h below a node / in a set of entries
RECURSIVE CountHash(_, _)
RECURSIVE CountEntries(_, _, _)
CountHash(node, h) ==
    IF node.kind = "file" THEN (IF node.hash = h THEN 1 ELSE 0)
    ELSE CountEntries(node.entries, DOMAIN node.entries, h)
CountEntries(e, names, h) ==
    IF names = {} THEN 0
    ELSE LET n == CHOOSE x \in names : TRUE
         IN CountHash(e[n], h) + CountEntries(e, names \ {n}, h)
TreeCount(P, h) == CountEntries(P, DOMAIN P, h)

\* every entry below a is below b at the same path, files with the same content
RECURSIVE Included(_, _)
Included(a, b) ==
    /\ a.kind = b.kind
    /\ a.kind = "file" => a = b
    /\ a.kind = "dir" =>
          \A n \in DOMAIN a.entries :
              n \in DOMAIN b.entries /\ Included(a.entries[n], b.entries[n])

\* C4 as stated: in a run without a same-name / different-content conflict the
\* multiset of files by content hash after the merges equals the multiset
\* before any merge.
C4_MultisetPreserved ==
    ~conflicted => \A h \in 1..MaxHash : TreeCount(tree, h) = TreeCount(tree0, h)

\* C4: in a run without a same-name / different-content conflict the multiset
\* of files by content hash before any merge equals the multiset after the
\* merges plus the source files move_folder_advanced deleted as duplicates of
\* a same-named file of identical content in the target; every content that
\* lost a copy is still present; merge_folder_contents and
\* merge_folder_list_to_target leave the multiset as it was.
C4_OnlyDuplicatesDropped ==
    /\ ~conflicted =>
          \A h \in 1..MaxHash :
              /\ TreeCount(tree0, h) = TreeCount(tree, h) + removed_log[h]
              /\ removed_log[h] > 0 => TreeCount(tree, h) > 0
    /\ op.name \in {"merge_folder_contents", "merge_folder_list_to_target"} =>
          \A h \in 1..MaxHash : TreeCount(tree, h) = TreeCount(pre, h)

\* a conflict-free move_folder_advanced dropped a duplicate and moved an entry
C4_Witness ==
    /\ ~conflicted
    /\ op.name = "move_folder_advanced" /\ op.ok
    /\ \E h \in 1..MaxHash : removed_log[h] > 0
    /\ \E item \in ListDir(tree, op.target) : item \notin ListDir(pre, op.target)

\* the file source/item is gone although the target held the name, so it was
\* not moved there
RemovedOutright(item) ==
    /\ op.name \in MergeOps
    /\ ItemIsFile(pre, op.source, item)
    /\ ~ItemExists(tree, op.source, item)
    /\ ItemExists(pre, op.target, item)

\* C5: a merge removes a source file outright only if the target holds a file
\* of the same name and the same content hash, whatever reading the two files
\* for hashing gives.
C5_RemovedOnlyWithIdenticalTwin ==
    \A item \in MergeNames :
        RemovedOutright(item) =>
            /\ ItemIsFile(pre, op.target, item)
            /\ pre[op.source].entries[item].hash = pre[op.target].entries[item].hash

C10_ConflictLeavesBoth ==
    op.name \in MergeOps =>
        \A item \in Collisions(pre, op.source, op.target) :
            pre[op.source].entries[item].hash # pre[op.target].entries[item].hash =>
                /\ ItemExists(tree, op.source, item)
                /\ tree[op.source].entries[item] = pre[op.source].entries[item]
                /\ ItemExists(tree, op.target, item)
                /\ tree[op.target].entries[item] = pre[op.target].entries[item]

----------------------------------------------------------------------------
(* Claims about repeated processor runs (SpecRun) *)

\* C7: a second run of the algorithm, on the tree the first run left, derives
\* no merge instruction and changes nothing.
C7_SecondPassDerivesNothing ==
    (~crash.active /\ passes >= 2) => (last_instr = 0 /\ tree = pre)

\* C8: when the processor has finished a directory, a fresh scan of the
\* directory yields no merge instruction.
C8_FreshScanYieldsNothing ==
    (~crash.active /\ passes >= 1) => derived_merges(tree) = <<>>

\* C9: after a merge of S into T was interrupted part-way, the next run moves
\* the remaining entries of S into T and removes S.
C9_RerunCompletesInterruptedMerge ==
    (crash.active /\ passes = crash.at + 1) =>
        /\ crash.source \notin DOMAIN tree
        /\ crash.target \in DOMAIN tree
        /\ crash.items \subseteq ListDir(tree, crash.target)

----------------------------------------------------------------------------
(* Claims about same-named directories in a merge (SpecMerge) *)

\* d is a directory in both the source and the target of the last operation
DirInBoth(d) ==
    /\ ItemExists(pre, op.source, d) /\ pre[op.source].entries[d].kind = "dir"
    /\ ItemExists(pre, op.target, d) /\ pre[op.target].entries[d].kind = "dir"

\* C11: move_folder_advanced onto an existing target recurses into a directory
\* of the same name in source and target: the entries of the source
\* subdirectory without a same-named counterpart in the target subdirectory
\* are in the target subdirectory afterwards.
C11_RecursesIntoSameNamedDirectory ==
    op.name = "move_folder_advanced" =>
        \A d \in MergeNames :
            DirInBoth(d) =>
                \A n \in DOMAIN pre[op.source].entries[d].entries :
                    n \notin DOMAIN pre[op.target].entries[d].entries =>
                        /\ ItemExists(tree, op.target, d)
                        /\ n \in DOMAIN tree[op.target].entries[d].entries
                        /\ tree[op.target].entries[d].entries[n]
                               = pre[op.source].entries[d].entries[n]

----------------------------------------------------------------------------
(* Claims about pruning (SpecPrune) *)

\* a file lies at or below the node
RECURSIVE HasFile(_)
HasFile(node) ==
    node.kind = "file" \/ \E k \in DOMAIN node.entries : HasFile(node.entries[k])

\* a directory flagged active lies at or below the node called name
RECURSIVE HasActive(_, _)
HasActive(name, node) ==
    /\ node.kind = "dir"
    /\ \/ IsActive(recording_status, name)
       \/ \E k \in DOMAIN node.entries : HasActive(k, node.entries[k])

\* Walk of the tree before the pruning (node b, called name) next to the tree
\* after it: present = the path still exists, a = the node at the path then.
\* Every directory flagged active is still at its path.
RECURSIVE ActiveKept(_, _, _, _)
ActiveKept(name, b, present, a) ==
    b.kind = "dir" =>
        /\ IsActive(recording_status, name) => (present /\ a.kind = "dir")
        /\ \A k \in DOMAIN b.entries :
              LET there == present /\ a.kind = "dir" /\ k \in DOMAIN a.entries
              IN ActiveKept(k, b.entries[k], there,
                            IF there THEN a.entries[k] ELSE b.entries[k])

\* Every file is still at its path; a directory is gone only if no file was
\* below it; a directory with no file and no active directory below it is gone.
RECURSIVE PrunedExactly(_, _, _, _)
PrunedExactly(name, b, present, a) ==
    IF b.kind = "file" THEN present /\ a = b
    ELSE /\ ~present => ~HasFile(b)
         /\ (~HasFile(b) /\ ~HasActive(name, b)) => ~present
         /\ \A k \in DOMAIN b.entries :
               LET there == present /\ a.kind = "dir" /\ k \in DOMAIN a.entries
               IN PrunedExactly(k, b.entries[k], there,
                                IF there THEN a.entries[k] ELSE b.entries[k])

RootPresent == PruneRoot \in DOMAIN tree
RootAfter == IF RootPresent THEN tree[PruneRoot] ELSE pre[PruneRoot]

\* C12: pruning with a recording-status dict deletes no directory whose base
\* name is mapped to recording or streaming, empty or not; so every ancestor
\* of such a directory stays too.
C12_ActiveDirectoriesKept ==
    pc = "pruned" => ActiveKept(PruneRoot, pre[PruneRoot], RootPresent, RootAfter)

\* an empty directory flagged active, below the root, survived a pruning that
\* removed another directory
C12_Witness ==
    /\ pc = "pruned"
    /\ RootPresent
    /\ \E k \in DOMAIN tree[PruneRoot].entries :
          /\ tree[PruneRoot].entries[k] = DirNode(NoEntries)
          /\ IsActive(recording_status, k)
    /\ tree # pre

\* C13: the pruning deletes a directory only if no file lies below it, deletes
\* no file, and deletes every directory at or below the root that has no file
\* and no directory flagged active at or below it.
C13_PrunesExactlyTheEmptySubtrees ==
    pc = "pruned" => PrunedExactly(PruneRoot, pre[PruneRoot], RootPresent, RootAfter)

\* a nested file-free directory went while a file and its directory stayed
C13_Witness ==
    /\ pc = "pruned"
    /\ RootPresent
    /\ HasFile(tree[PruneRoot])
    /\ \E k \in DOMAIN pre[PruneRoot].entries :
          /\ k \notin DOMAIN tree[PruneRoot].entries
          /\ pre[PruneRoot].entries[k].kind = "dir"
          /\ DOMAIN pre[PruneRoot].entries[k].entries # {}

----------------------------------------------------------------------------
(* Claims about the indexers and the suffix consolidation (SpecIndex) *)

\* The directories of the scanned folder, before the run, that carry a tool-A
\* tag after a dated stamp and a title
TaggedDirs ==
    {n \in DOMAIN tree0 :
        /\ tree0[n].kind = "dir"
        /\ n.tag \in {"blrec-flv", "blrec-hls"}
        /\ n.stamp \notin {BadStamp, NoStamp}
        /\ n.title # ""}

\* Those sharing calendar day, title and suffix with n
SuffixGroup(n) ==
    {m \in TaggedDirs :
        /\ m.stamp \div 86400 = n.stamp \div 86400
        /\ m.title = n.title
        /\ m.tag = n.tag}

CallFor(G) ==
    {k \in 1..Len(merge_calls) : merge_calls[k].target \in G}

\* No entry name occurs in two members of G
NoSharedEntry(G) ==
    \A a, b \in G : a # b => DOMAIN tree0[a].entries \cap DOMAIN tree0[b].entries = {}

C15_GroupsPureAndSorted ==
    (pc = "indexed" /\ op.name \in Indexers) =>
        \A k \in DOMAIN groups :
            LET list == groups[k]
            IN /\ \A i, j \in 1..Len(list) :
                     /\ list[i].title = list[j].title
                     /\ op.name \in {"TimeBasedIndexer", "BlrecIndexer"} =>
                           list[i].date \div 86400 = list[j].date \div 86400
                     /\ op.name = "BlrecIndexer" => list[i].suffix = list[j].suffix
               /\ \A i, j \in 1..Len(list) : i < j => list[i].date <= list[j].date

\* C15 witness: a group of three folders with three different nominal dates
\* (spanning two days in the title index).
C15_Witness ==
    /\ pc = "indexed"
    /\ \E k \in DOMAIN groups :
          /\ Len(groups[k]) = 3
          /\ groups[k][1].date < groups[k][2].date
          /\ groups[k][2].date < groups[k][3].date
          /\ \/ /\ op.name = "TitleBasedIndexer"
                /\ groups[k][1].date \div 86400 # groups[k][3].date \div 86400
             \/ op.name = "TimeBasedIndexer"
             \/ op.name = "BlrecIndexer"

----------------------------------------------------------------------------
(* Claims about the L5 pass on a user folder (SpecIndex) *)

\* Media file names that carry a valid date token
DatedFlvNames == {"20250521-100200_A.flv", "20250522-003000_A.flv"}

MediaNames(d) == {n \in DOMAIN tree0[d].entries : IsFlvName(n)}

LatestMedia(d) ==
    {n \in MediaNames(d) :
        \A m \in MediaNames(d) : tree0[d].entries[m].mtime <= tree0[d].entries[n].mtime}

\* A corrupted-timestamp directory whose true date cannot be recovered: no
\* media file, or no most recently modified media file with a valid token
Unrecoverable(d) ==
    /\ tree0[d].kind = "dir"
    /\ d.stamp = ErrorDate /\ d.title # ""
    /\ \A n \in LatestMedia(d) : n \notin DatedFlvNames

InSomeCall(d) ==
    \E k \in 1..Len(merge_calls) :
        \/ merge_calls[k].target = d
        \/ \E i \in 1..Len(merge_calls[k].folders) : merge_calls[k].folders[i] = d

\* C17: a corrupted-timestamp directory whose true date cannot be recovered
\* is neither source nor target of a merge of the run, and its contents are
\* as they were (an empty one may be removed by the closing clean-up).
C17_UnrecoverableLeftAlone ==
    (pc = "merged" /\ op.name = "L5Processor") =>
        \A d \in DOMAIN tree0 :
            Unrecoverable(d) =>
                /\ ~InSomeCall(d)
                /\ \A k \in 1..Len(error_folders) : error_folders[k].path # d
                /\ \/ d \in DOMAIN tree /\ tree[d] = tree0[d]
                   \/ d \notin DOMAIN tree /\ DOMAIN tree0[d].entries = {}

\* C17 witness: the folder of show A holds a dated file and a later undated
\* one and stays as it was, while the folder of show B was merged into the
\* normal folder of show B in the same run.
C17_Witness ==
    /\ pc = "merged" /\ op.name = "L5Processor"
    /\ DirName(ErrorDate, "A", "", "") \in DOMAIN tree0
    /\ Unrecoverable(DirName(ErrorDate, "A", "", ""))
    /\ DOMAIN tree0[DirName(ErrorDate, "A", "", "")].entries = {"20250521-100200_A.flv", "x.flv"}
    /\ DirName(ErrorDate, "A", "", "") \in DOMAIN tree
    /\ tree[DirName(ErrorDate, "A", "", "")] = tree0[DirName(ErrorDate, "A", "", "")]
    /\ Len(merge_calls) = 1
    /\ merge_calls[1].folders = <<DirName(ErrorDate, "B", "", "")>>
    /\ DirName(ErrorDate, "B", "", "") \notin DOMAIN tree

----------------------------------------------------------------------------
(* Claims about unparsable names (SpecIndex) *)

\* A name of no recognised scheme: it does not start with a stamp and "_",
\* or the digits of its stamp are no date
Unrecognised(n) == n.stamp \in {NoStamp, BadStamp}

InGroups(n) ==
    \E k \in DOMAIN groups : \E i \in 1..Len(groups[k]) : groups[k][i].path = n

InSkipped(n) == \E i \in 1..Len(skipped_folders) : skipped_folders[i].path = n

InPartitions(n) ==
    \/ \E i \in 1..Len(error_folders) : error_folders[i].path = n
    \/ \E k \in DOMAIN normal_folders : normal_folders[k].path = n

\* C18: a directory whose name matches no recognised scheme is in no index
\* group, not in the skipped bucket, in neither the corrupted nor the normal
\* partition, and neither source nor target of a derived merge.
C18_UnparsableNamesExcluded ==
    \A n \in DOMAIN tree0 :
        Unrecognised(n) =>
            /\ ~InGroups(n)
            /\ ~InSkipped(n)
            /\ ~InPartitions(n)
            /\ ~InSomeCall(n)

\* C18 witness: the suffix index was built over an unparsable directory, a
\* generic folder (skipped) and a tool-A folder (grouped).
C18_Witness ==
    /\ pc = "indexed" /\ op.name = "BlrecIndexer"
    /\ DirName(NoStamp, "misc", "", "") \in DOMAIN tree0
    /\ tree0[DirName(NoStamp, "misc", "", "")].kind = "dir"
    /\ InSkipped(DirName(36300, "A", "", ""))
    /\ InGroups(DirName(36000, "A", "blrec-flv", ""))

----------------------------------------------------------------------------
(* Claims about the reach of the suffix index (SpecIndex) *)

\* The tool-A directories of key NestedKey directly in the scanned folder
TopLevelOfNestedKey ==
    {n \in TaggedDirs :
        GroupKey(n.stamp \div 86400, n.title, n.tag) = NestedKey}

\* The directories of the scanned folder that hold the nested tool-A folder
HostsOfNested ==
    {n \in DOMAIN tree0 :
        /\ tree0[n].kind = "dir"
        /\ NestedName \in DOMAIN tree0[n].entries
        /\ tree0[n].entries[NestedName].kind = "dir"}

\* C20: the suffix index covers the whole subtree of the scanned directory: a
\* tool-A directory nested below a session folder is indexed and grouped with
\* the tool-A directories of the same (date, title, suffix), so the group of
\* that key has one member for each of them, nested or not.
C20_NestedTaggedDirIndexed ==
    (pc = "indexed" /\ op.name = "BlrecIndexer" /\ HostsOfNested # {}) =>
        /\ NestedKey \in DOMAIN groups
        /\ Len(groups[NestedKey])
               = Cardinality(TopLevelOfNestedKey) + Cardinality(HostsOfNested)

----------------------------------------------------------------------------
(* Claims about the media facts (SpecProbe) *)

\* C19: every media fact of a path is computed once per run and never
\* invalidated: a later query for the same path and fact returns what the
\* first query returned, whatever happened to the directory in between.
C19_LaterQueryReturnsFirstAnswer ==
    \A q \in DOMAIN answers : answers[q].last = answers[q].first

----------------------------------------------------------------------------
(* Claims about the name grammars (SpecIndex) *)

\* A name "<8 digits>-<6 digits>_<title>" with a non-empty title whose
\* digits are a date and a time
WellFormedName(n) == n.stamp \notin {NoStamp, BadStamp} /\ n.title # ""

\* C27: parse_folder_name yields a record for every directory name of the form
\* <8 digits>-<6 digits>_<non-empty title> with a valid date and time, so
\* after a scan every such directory is in a group or in the skipped bucket.
C27_WellFormedNameYieldsRecord ==
    (pc = "indexed" /\ op.name \in Indexers) =>
        \A n \in DOMAIN tree :
            (tree[n].kind = "dir" /\ WellFormedName(n)) =>
                InGroups(n) \/ InSkipped(n)

----------------------------------------------------------------------------
(* Claims about anchors without media evidence (SpecChain) *)

ChainTargets == {merge_chains[n].target : n \in 1..Len(merge_chains)}

\* The unconsumed members after i, as anchor i meets them
UnconsumedAfter(i) == {j \in (i + 1)..Len(folder_list) : j \notin ConsumedBefore(i)}

FirstUnconsumedAfter(i) ==
    CHOOSE j \in UnconsumedAfter(i) : \A k \in UnconsumedAfter(i) : j <= k

\* C28: a directory without a media modification time is never the target of
\* a chain, and passing over it neither consumes it nor ends the walk: the
\* targets are exactly the unconsumed members with a modification time whose
\* next unconsumed member lies within the interval, wherever members without
\* media stand before them.
C28_NoMediaNeverAnchors ==
    pc = "done" =>
        /\ \A i \in 1..Len(folder_list) :
              flv_times[i] = NoTime => i \notin ChainTargets
        /\ \A i \in 1..Len(folder_list) :
              i \in ChainTargets <=>
                  /\ IsAnchor(i)
                  /\ UnconsumedAfter(i) # {}
                  /\ GapTo(i, FirstUnconsumedAfter(i)) <= 60

\* C28 witness: the first member has no media and is in no chain, and a later
\* member anchors a chain.
C28_Witness ==
    /\ pc = "done"
    /\ Len(folder_list) = 3
    /\ flv_times[1] = NoTime
    /\ merge_chains = <<[target |-> 2, sources |-> <<3>>]>>

----------------------------------------------------------------------------
(* Claims about the reported outcomes (SpecProcess) *)

\* the sources that are directories, and their immediate sub-directories
DirSources == {g \in DOMAIN tree0 : tree0[g].kind = "dir"}
SubDirs(E) == {n \in DOMAIN E : E[n].kind = "dir"}
TopDirs(g) == SubDirs(tree0[g].entries)

\* The directories the run examines: L3, L4 and L5 take every sub-directory
\* of a source, L2 those that are no social folder and the sub-directories
\* of the social folders
Examined ==
    IF op.name = "L2Processor"
    THEN UNION {(TopDirs(g) \ social_folders)
                \cup UNION {SubDirs(tree0[g].entries[s].entries) :
                               s \in TopDirs(g) \cap social_folders}
                : g \in DirSources}
    ELSE UNION {TopDirs(g) : g \in DirSources}

Reports(n) == {i \in 1..Len(stats) : stats[i].name = n}

\* C22: every directory a processor examines has exactly one outcome in the
\* statistics the run returns
C22_OneOutcomePerDirectory ==
    pc = "returned" => \A n \in Examined : Cardinality(Reports(n)) = 1

\* the entries of sub-directory n of a source, before and after the run
GroupOf(n) == CHOOSE g \in DirSources : n \in TopDirs(g)
EntriesBefore(n) == tree0[GroupOf(n)].entries[n].entries
EntriesAfter(n) == tree[GroupOf(n)].entries[n].entries

\* the instructions the run executed in directory n
Executed(n) ==
    UNION {{events[i].instr[k] : k \in 1..Len(events[i].instr)}
           : i \in {j \in 1..Len(events) : events[j].step = "execute" /\ events[j].dir = n}}

\* the (instruction, source) pairs of directory n whose move failed: the
\* source folder is still there after the run
FailedMoves(n) ==
    {x \in Executed(n) \X DOMAIN EntriesAfter(n) :
        \E k \in 1..Len(x[1].sources) : x[1].sources[k] = x[2]}

\* C23: after a failed move of an instruction the entries already moved are
\* in the target (none is moved back or lost), and the directory is reported
\* as failed with the error
C23_FailedMoveReportedFailed ==
    (pc = "returned" /\ op.name = "L3Processor") =>
        \A n \in Examined \ skip_folders :
            \A x \in FailedMoves(n) :
                /\ \A item \in DOMAIN EntriesBefore(n)[x[2]].entries :
                      \/ item \in DOMAIN EntriesAfter(n)[x[2]].entries
                      \/ item \in DOMAIN EntriesAfter(n)[x[1].target].entries
                /\ \E i \in Reports(n) : stats[i].kind = "failed" /\ stats[i].reason # ""

Scanned(n) == \E i \in 1..Len(events) : events[i].step = "scan" /\ events[i].dir = n

----------------------------------------------------------------------------
(* Claims about the reach of the corrupted-timestamp recovery (SpecProcess) *)

\* The corrupted-timestamp folders among the entries E that have a matching
\* normal sibling: same title, and the date recovered from the media file
\* name is the sibling's day, or the day after it with an hour of 0..6
ErrorWithMatch(E) ==
    {e \in SubDirs(E) :
        /\ is_error_time_format(e)
        /\ \E r \in extract_flv_date_from_filename(NoCache, E, e) :
              /\ r.date # NoTime
              /\ \E n \in SubDirs(E) :
                    LET folder_info == parse_folder_name(n)
                    IN /\ folder_info # NoInfo /\ ~is_error_time_format(n)
                       /\ folder_info.title = parse_folder_name(e).title
                       /\ \/ DateOf(folder_info.date) = DateOf(r.date)
                          \/ /\ DateOf(folder_info.date) = DateOf(r.date) - 1
                             /\ HourOf(r.date) <= 6}

\* C25: after a run of L5 no corrupted-timestamp folder with a matching
\* normal sibling is left, neither directly in a sub-directory of a source
\* nor one level deeper
C25_ErrorFoldersFixedAtBothLevels ==
    (pc = "returned" /\ op.name = "L5Processor") =>
        \A g \in DirSources : \A u \in TopDirs(g) \ skip_folders :
            LET E == tree[g].entries[u].entries
            IN /\ ErrorWithMatch(E) = {}
               /\ \A c \in SubDirs(E) \ skip_folders : ErrorWithMatch(E[c].entries) = {}

----------------------------------------------------------------------------
(* Claims about the skip list (SpecProcess) *)

\* C26: a skip-listed directory, a sub-directory of a source or one level
\* deeper, is never scanned, its subtree is as before the run, and the
\* statistics hold a skipped record for it
C26_SkipListedLeftAloneAndReported ==
    pc = "returned" =>
        \A g \in DirSources :
            /\ \A n \in TopDirs(g) \cap skip_folders :
                  /\ n \in DOMAIN tree[g].entries
                  /\ tree[g].entries[n] = tree0[g].entries[n]
                  /\ ~Scanned(n)
                  /\ \E i \in Reports(n) : stats[i].kind = "skipped"
            /\ \A u \in TopDirs(g) \ skip_folders :
                  \A n \in SubDirs(tree0[g].entries[u].entries) \cap skip_folders :
                      /\ u \in DOMAIN tree[g].entries
                      /\ n \in DOMAIN tree[g].entries[u].entries
                      /\ tree[g].entries[u].entries[n] = tree0[g].entries[u].entries[n]
                      /\ ~Scanned(n)
                      /\ \E i \in Reports(n) : stats[i].kind = "skipped"

----------------------------------------------------------------------------
(* Claims about the order of the steps on a user directory (SpecProcess) *)

\* the positions of the steps of one kind on directory n
StepsAt(n, step) == {i \in 1..Len(events) : events[i].dir = n /\ events[i].step = step}

\* C30: on every processed directory L3, L4 and L5 scan once and first,
\* execute an instruction only after deriving it, prune once after the
\* last execution, and report once, after the pruning
C30_ScanDeriveExecutePruneReport ==
    (pc = "returned" /\ op.name \in {"L3Processor", "L4Processor", "L5Processor"}) =>
        \A n \in Examined \ skip_folders :
            /\ Cardinality(StepsAt(n, "scan")) = 1
            /\ \A i \in StepsAt(n, "scan") :
                  \A j \in 1..Len(events) : events[j].dir = n => i <= j
            /\ \A j \in StepsAt(n, "execute") :
                  \E i \in StepsAt(n, "derive") : i < j /\ events[i].instr = events[j].instr
            /\ Cardinality(StepsAt(n, "prune")) = 1
            /\ \A p \in StepsAt(n, "prune") :
                  /\ \A j \in StepsAt(n, "execute") \cup StepsAt(n, "derive") : j < p
                  /\ \A r \in StepsAt(n, "report") : p < r
            /\ Cardinality(StepsAt(n, "report")) = 1
            /\ Cardinality(Reports(n)) = 1

----------------------------------------------------------------------------
(* Claims about the shape of the merge instructions (SpecProcess) *)

\* the instructions the run derived
Derived ==
    UNION {{events[i].instr[k] : k \in 1..Len(events[i].instr)}
           : i \in {j \in 1..Len(events) : events[j].step = "derive"}}

NominalDate(path) == parse_folder_name(path).date

\* C29: every instruction of the same-day (L3), cross-midnight (L4) and
\* suffix (L2) algorithms has a source, does not name its target among its
\* sources, and its target is dated no later than each of its sources
C29_TargetIsEarliestMember ==
    (pc = "returned" /\ op.name \in {"L2Processor", "L3Processor", "L4Processor"}) =>
        \A m \in Derived :
            /\ Len(m.sources) >= 1
            /\ \A k \in 1..Len(m.sources) :
                  /\ m.sources[k] # m.target
                  /\ parse_folder_name(m.sources[k]) # NoInfo
                  /\ parse_folder_name(m.target) # NoInfo
                  /\ NominalDate(m.target) <= NominalDate(m.sources[k])

\* C29 witness: L4 derived the instruction "23:50:00 of day 0 <- 00:00:20 of
\* day 1" for UserA
C29_Witness ==
    /\ pc = "returned" /\ op.name = "L4Processor"
    /\ Instruction(DirName(85800, "A", "", ""), <<DirName(86420, "A", "", "")>>) \in Derived

----------------------------------------------------------------------------
(* Claims about the move out of the live area (SpecMoveOut) *)

\* The user folders of the live area before the run: those directly in the
\* source directory and those inside its social folders
LiveEntries0 == tree0[path_config[1]].entries
LiveUserNames ==
    {u \in DOMAIN LiveEntries0 : u \notin social_folders /\ LiveEntries0[u].kind = "dir"}
    \cup UNION {DOMAIN LiveEntries0[s].entries : s \in DOMAIN LiveEntries0 \cap social_folders}
LiveParent0(u) ==
    IF u \in DOMAIN LiveEntries0 THEN LiveEntries0
    ELSE LiveEntries0[CHOOSE s \in DOMAIN LiveEntries0 \cap social_folders :
                          u \in DOMAIN LiveEntries0[s].entries].entries
\* the entries that now surround user folder u in the live area
LiveEntriesNow == IF path_config[1] \in DOMAIN tree THEN tree[path_config[1]].entries
                  ELSE NoEntries
LiveParentNow(u) ==
    IF u \in DOMAIN LiveEntries0 THEN LiveEntriesNow
    ELSE LET s == CHOOSE x \in DOMAIN LiveEntries0 \cap social_folders :
                      u \in DOMAIN LiveEntries0[x].entries
         IN IF s \in DOMAIN LiveEntriesNow THEN LiveEntriesNow[s].entries ELSE NoEntries
SkippedNames == {stats[i].name : i \in {j \in 1..Len(stats) : stats[j].kind = "skipped"}}

\* C31: a user folder marked recording or streaming in the snapshot stays where
\* it is, with every file it held, is reported skipped and nothing of it
\* reaches the target; a user folder without an entry in the snapshot is not
\* skipped: it goes to the target whole when the target has no folder of its
\* name, and otherwise each of its entries the target lacks goes there
C31_ActiveStaysUnknownMoves ==
    (pc = "returned" /\ api_ok) =>
        \A u \in LiveUserNames :
            /\ IsActive(recording_status, u) =>
                  /\ u \in DOMAIN LiveParentNow(u)
                  /\ LiveParentNow(u)[u] = DeleteDir(u, LiveParent0(u)[u], recording_status).node
                  /\ u \in SkippedNames
                  /\ (u \in DOMAIN target) = (u \in DOMAIN pre)
                  /\ u \in DOMAIN pre => target[u] = pre[u]
            /\ u \notin DOMAIN recording_status =>
                  /\ u \notin SkippedNames
                  /\ u \in DOMAIN target
                  /\ u \notin DOMAIN pre =>
                        /\ target[u] = LiveParent0(u)[u]
                        /\ u \notin DOMAIN LiveParentNow(u)
                  /\ u \in DOMAIN pre =>
                        \A e \in DOMAIN LiveParent0(u)[u].entries \ DOMAIN pre[u].entries :
                            /\ e \in DOMAIN target[u].entries
                            /\ target[u].entries[e] = LiveParent0(u)[u].entries[e]

\* C31 witness: UserA is recording and keeps its file in the live area while
\* UserS, unknown to the snapshot, has gone to the target
C31_Witness ==
    /\ pc = "returned" /\ api_ok
    /\ UserA \in DOMAIN recording_status /\ recording_status[UserA].recording
    /\ UserA \in DOMAIN LiveEntriesNow
    /\ LiveEntriesNow[UserA].entries # NoEntries
    /\ LiveEntriesNow[UserA] = LiveEntries0[UserA]
    /\ UserS \in LiveUserNames /\ UserS \notin DOMAIN recording_status
    /\ LiveParent0(UserS)[UserS].entries # NoEntries
    /\ UserS \in DOMAIN target /\ UserA \notin DOMAIN target

----------------------------------------------------------------------------
(* Claims about the move to the archive (SpecFinal) *)

\* The user folders the run examines, as paths: the folders of the source
\* that are neither skip-listed nor social, and the folders inside the social
\* ones that are not skip-listed
FinalSource0 == NodeAt(tree0, final_source).entries
FinalUserPaths ==
    {Append(final_source, u) :
        u \in {n \in DOMAIN FinalSource0 :
                  FinalSource0[n].kind = "dir" /\ n \notin skip_folders \cup social_folders}}
    \cup UNION {{<<final_source[1], s, u>> :
                    u \in {n \in DOMAIN FinalSource0[s].entries :
                              FinalSource0[s].entries[n].kind = "dir" /\ n \notin skip_folders}}
                : s \in DOMAIN FinalSource0 \cap social_folders}
\* where the run would put the folder at path p
ArchivePath(p) == target \o Tail(p)
MovesOf(p) == {i \in 1..Len(events) : events[i].dir = p}
\* path t is path s or lies below it
IsUnder(t, s) == Len(t) >= Len(s) /\ SubSeq(t, 1, Len(s)) = s

\* C32: a user folder L9 moved held exactly one sub-directory when it was
\* checked, and its archive path is neither its own path nor below it; a user
\* folder L9 did not move is still in place with all it held and is reported
\* skipped
C32_MovedOnlyWithOneSubfolder ==
    (pc = "returned" /\ op.name = "L9") =>
        \A p \in FinalUserPaths :
            /\ MovesOf(p) # {} =>
                  /\ \A i \in MovesOf(p) :
                        /\ events[i].instr.subfolders = 1
                        /\ events[i].instr.target = ArchivePath(p)
                  /\ Cardinality(subfolders(NodeAt(tree0, p))) = 1
                  /\ p # ArchivePath(p)
                  /\ ~IsUnder(ArchivePath(p), p)
            /\ MovesOf(p) = {} =>
                  /\ PathExists(tree, p)
                  /\ Included(NodeAt(tree0, p), NodeAt(tree, p))
                  /\ p[Len(p)] \in SkippedNames

\* C32 witness: UserA with one session folder and a file has gone to the
\* archive while UserP with two session folders is in place, reported skipped
C32_Witness ==
    /\ pc = "returned" /\ op.name = "L9"
    /\ target = <<PlainName("dst")>>
    /\ MovesOf(Append(final_source, UserA)) # {}
    /\ PlainName("cover.jpg") \in DOMAIN NodeAt(tree0, Append(final_source, UserA)).entries
    /\ ~PathExists(tree, Append(final_source, UserA))
    /\ NodeAt(tree, <<PlainName("dst"), UserA>>) = NodeAt(tree0, Append(final_source, UserA))
    /\ Append(final_source, UserP) \in FinalUserPaths
    /\ MovesOf(Append(final_source, UserP)) = {}
    /\ NodeAt(tree, Append(final_source, UserP)) = NodeAt(tree0, Append(final_source, UserP))
    /\ UserP \in SkippedNames

----------------------------------------------------------------------------
(* Claims about the chains of one search (SpecChains) *)

\* the directories of chain n: its target and its sources
ChainMembers(n) ==
    {merge_chains[n].target}
    \cup {merge_chains[n].sources[k] : k \in 1..Len(merge_chains[n].sources)}

\* C33: the chains of one find_merge_chains call share no directory: a
\* directory is in at most one chain and at most once in it, so no target of
\* a chain is a source of a chain
C33_ChainsDisjoint ==
    pc = "done" =>
        /\ \A n, m \in 1..Len(merge_chains) :
              n # m => ChainMembers(n) \cap ChainMembers(m) = {}
        /\ \A n \in 1..Len(merge_chains) :
              /\ merge_chains[n].target
                    \notin {merge_chains[n].sources[k] : k \in 1..Len(merge_chains[n].sources)}
              /\ \A j, k \in 1..Len(merge_chains[n].sources) :
                    merge_chains[n].sources[j] = merge_chains[n].sources[k] => j = k

\* C33 witness: two chains, and the media time of the second anchor is within
\* the interval of the nominal date of a source of the first
C33_Witness ==
    /\ pc = "done"
    /\ Len(merge_chains) = 2
    /\ \E k \in 1..Len(merge_chains[1].sources) :
          should_merge(flv_times[merge_chains[2].target],
                       folder_list[merge_chains[1].sources[k]].date)

----------------------------------------------------------------------------
(* Claims about the parents of merged directories (SpecWalk) *)

\* the directory a path lies in
ParentOf(path) == SubSeq(path, 1, Len(path) - 1)

\* C34: every merge has its sources in the directory its target is in
C34_MergesWithinOneParent ==
    (pc = "returned" /\ op.name = "RECHEME") =>
        \A n \in 1..Len(merge_calls) :
            \A k \in 1..Len(merge_calls[n].folders) :
                ParentOf(merge_calls[n].folders[k]) = ParentOf(merge_calls[n].target)

----------------------------------------------------------------------------
(* Claims about the enumeration order and the recovery target (SpecIndex) *)

\* C35: the normal folder found for a corrupted-timestamp folder is the one
\* every other os.listdir order of the same folders would have found for it
C35_TargetIndependentOfOrder ==
    (pc = "indexed" /\ op.name = "ErrorTimeIndexer") =>
        \A listing \in Perms(DOMAIN tree) :
            \A r \in ErrorTimeIndexer_scan_and_index(NoCache, tree, listing) :
                \A i \in 1..Len(r.errors) : \A j \in 1..Len(error_folders) :
                    r.errors[i] = error_folders[j] =>
                        find_matching_normal_folder(r.normal, r.errors[i])
                            = find_matching_normal_folder(normal_folders, error_folders[j])

----------------------------------------------------------------------------
(* Claims about what a counted merge has done (SpecMerge) *)

\* C36: when merge_folder_contents returns True, or merge_folder_list_to_target
\* counts the source, the source folder is gone and every entry it held is in
\* the target folder, as it was
C36_CountedMergeIsComplete ==
    (op.name \in {"merge_folder_contents", "merge_folder_list_to_target"} /\ op.ok) =>
        /\ op.source \in DOMAIN pre
        /\ op.source \notin DOMAIN tree
        /\ op.target \in DOMAIN tree
        /\ \A item \in ListDir(pre, op.source) :
              /\ ItemExists(tree, op.target, item)
              /\ tree[op.target].entries[item] = pre[op.source].entries[item]

\* C36 witness: a counted merge of a source that held entries into a target
\* that held others
C36_Witness ==
    /\ op.name = "merge_folder_contents" /\ op.ok
    /\ ListDir(pre, op.source) # {}
    /\ ListDir(pre, op.target) # {}
    /\ op.source \notin DOMAIN tree

----------------------------------------------------------------------------
(* Claims about the statistics of the L2 processor (SpecProcess) *)

\* the groups BLREC and RECHEME merged in the run, and the successes reported
MergedGroups == {i \in 1..Len(events) : events[i].step = "execute"}
SuccessCount == Cardinality({i \in 1..Len(stats) : stats[i].kind = "success"})

\* C37: the statistics of L2Processor.process() hold one success for each
\* group the BLREC and RECHEME objects merged
C37_EachMergedGroupCountedOnce ==
    (pc = "returned" /\ op.name = "L2Processor") =>
        SuccessCount = Cardinality(MergedGroups)

----------------------------------------------------------------------------
(* Claims about the counters of a Statistics object (SpecStats) *)

\* C38: in every Statistics object total is the sum of success, failed and
\* skipped, and failed is the number of entries of failed_names
C38_CountersAgree ==
    pc = "stats" =>
        \A i \in 1..2 :
            /\ stats[i].total = stats[i].success + stats[i].failed + stats[i].skipped
            /\ stats[i].failed = Len(stats[i].failed_names)

\* C38 witness: a merge_stats has just brought an object that holds successes,
\* failures and skips to the largest total
C38_Witness ==
    /\ pc = "stats" /\ op.name = "merge_stats"
    /\ \E i \in 1..2 :
          /\ stats[i].total = MaxCount
          /\ stats[i].failed >= 2 /\ stats[i].skipped >= 1 /\ stats[i].success >= 1
          /\ stats[3 - i].failed >= 1

====
